---- MODULE Spec2Model ----
(***************************************************************************)
(* wasm-smith: ConfiguredModule::build, the module construction pipeline   *)
(* of crates/wasm-smith/src/lib.rs, as a state machine.                    *)
(*                                                                         *)
(* One action is one iteration of a phase's growth loop (the `continue`    *)
(* draw of arbitrary_loop plus the whole loop body), or the end of a       *)
(* phase.  The byte buffer `u` is modelled by the number of bytes it still *)
(* holds (`remaining`) and every draw is a nondeterministic choice among   *)
(* the values the draw can return; a draw on an exhausted buffer returns   *)
(* its fallback (false, the lower bound, the first choice, the empty       *)
(* string).  Payload values no decision depends on (the integer of an      *)
(* I32Const, the bytes of a data segment) are consumed but not stored.     *)
(***************************************************************************)
EXTENDS Integers, Sequences, FiniteSets, TLC

VARIABLES
    pc,             \* the phase `build` is in
    config,         \* self.config
    allow_invalid,  \* build's argument
    remaining,      \* bytes left in the Unstructured buffer
    failure,        \* "none", or the hard failure that ended the run
    valtypes, types, imports, funcs, tables, memories, globals,
    exports, start, elems, code, data,
    export_names,   \* arbitrary_exports' local `export_names`
    drawn_name,     \* the export loop body's `name` as limited_string returned it
    tokens,         \* parse_list_trailer: the token stream behind the Tokenizer
    cursor,         \* parse_list_trailer: the tokens the Tokenizer has consumed
    items,          \* parse_list_trailer's local `items`
    result,         \* parse_list_trailer: "running", or what it returned
    input,          \* limited_string: the bytes of `u` behind the length
    max_size,       \* limited_string's argument
    size,           \* limited_string: what arbitrary_len returned
    string,         \* limited_string: None, or the string returned
    unread          \* limited_string: the bytes of `u` left after the call

\* the state of parse_list_trailer
list_vars == <<tokens, cursor, items, result>>

\* the state of a call of limited_string
str_vars == <<input, max_size, size, string, unread>>

vars == <<pc, config, allow_invalid, remaining, failure, valtypes, types,
          imports, funcs, tables, memories, globals, exports, start, elems,
          code, data, export_names, drawn_name, list_vars, str_vars>>

-----------------------------------------------------------------------------
(* Bounds of the model *)

\* the byte buffer holds at most MaxBytes bytes
MaxBytes == 13
\* a configured maximum is at most MaxCount
MaxCount == 2
\* the length byte of a string draw asks for at most MaxStrLen bytes
MaxStrLen == 1
\* a nested loop over value types continues at most MaxList times
MaxList == 1

(* Program constants *)

ParamCap == 20
LocalCap == 100
NameCap == 1000
MemoryCap == 65536
TableCap == 1000000
\* u32::MAX, the value `0 - 1` wraps to; TLC's integers are 32-bit signed,
\* so the largest of them stands for it (four bytes wide all the same)
U32Max == 2147483646 + 1

\* bytes a string draw can see: '2' and 0xFF (never valid in UTF-8)
StrBytes == {50, 255}

None == <<>>
Some(x) == <<x>>

Min(a, b) == IF a < b THEN a ELSE b


-----------------------------------------------------------------------------
(* The randomness source: Unstructured draws *)

\* the buffer after a draw of n bytes (fill_buffer pads with zeros)
Take(rem, n) == IF rem > n THEN rem - n ELSE 0

\* u.arbitrary::<bool>(): one byte; false once the buffer is exhausted
Bools(rem) == IF rem = 0 THEN {FALSE} ELSE BOOLEAN

RECURSIVE BytesNeeded(_)
\* the bytes int_in_range reads for a range of the given width (hi - lo)
BytesNeeded(delta) == IF delta = 0 THEN 0 ELSE 1 + BytesNeeded(delta \div 256)

\* u.int_in_range(lo..=hi) for lo <= hi: nothing is read when lo = hi;
\* the lower bound once the buffer is exhausted
IntInRange(rem, lo, hi) == IF lo = hi \/ rem = 0 THEN {lo} ELSE lo..hi

\* the same for the wide ranges of Limits: the two ends stand for the range
WideInRange(rem, lo, hi) ==
    IF lo = hi \/ rem < BytesNeeded(hi - lo) THEN {lo} ELSE {lo, hi}

AfterInt(rem, lo, hi) == Take(rem, BytesNeeded(hi - lo))

\* u.choose(&choices) for a non-empty list: an index into it
ChooseIdx(rem, n) == IntInRange(rem, 1, n)
AfterChoose(rem, n) == AfterInt(rem, 1, n)

\* `let max = n - 1; u.int_in_range(0..=max)?` for a u32 count n: the
\* outcomes [v, rem, fail].  With n = 0 the subtraction underflows: a build
\* with overflow checks panics, a build without wraps to the whole u32 range.
IndexBelow(n, rem) ==
    IF n = 0
    THEN {[v |-> 0, rem |-> rem, fail |-> "Underflow"]} \cup
         { [v |-> x, rem |-> AfterInt(rem, 0, U32Max), fail |-> "none"]
           : x \in WideInRange(rem, 0, U32Max) }
    ELSE { [v |-> x, rem |-> AfterInt(rem, 0, n - 1), fail |-> "none"]
           : x \in IntInRange(rem, 0, n - 1) }

-----------------------------------------------------------------------------
(* limited_string *)

Utf8Width(b) ==
    IF b < 128 THEN 1
    ELSE IF b >= 194 /\ b <= 223 THEN 2
    ELSE IF b >= 224 /\ b <= 239 THEN 3
    ELSE IF b >= 240 /\ b <= 244 THEN 4
    ELSE 0

\* the range the second byte of a sequence led by b must lie in
Utf8Second(b) ==
    IF b = 224 THEN 160..191
    ELSE IF b = 237 THEN 128..159
    ELSE IF b = 240 THEN 144..191
    ELSE IF b = 244 THEN 128..143
    ELSE 128..191

RECURSIVE ValidFrom(_, _)
\* str::from_utf8's valid_up_to, scanning s from position i (1-based)
ValidFrom(s, i) ==
    IF i > Len(s) THEN Len(s)
    ELSE LET w == Utf8Width(s[i]) IN
         IF w = 0 \/ i + w - 1 > Len(s) THEN i - 1
         ELSE IF w >= 2 /\ s[i + 1] \notin Utf8Second(s[i]) THEN i - 1
         ELSE IF \E k \in 2..(w - 1) : s[i + k] \notin 128..191 THEN i - 1
         ELSE ValidFrom(s, i + w)

\* the position of the first byte of s that is not ASCII, Len(s) + 1 if none
FirstNonAscii(s) ==
    IF \A k \in DOMAIN s : s[k] < 128 THEN Len(s) + 1
    ELSE CHOOSE k \in DOMAIN s : s[k] >= 128 /\ \A j \in 1..(k - 1) : s[j] < 128

\* an ASCII byte is a sequence of its own: the scan starts after the ASCII
\* prefix
ValidUpTo(s) == ValidFrom(s, FirstNonAscii(s))

\* the slices of n bytes over an alphabet that a draw can peek
SlicesOver(n, alphabet) == [1..n -> alphabet]

\* the bytes arbitrary_len reads for the length: one for a buffer of up to
\* 256 bytes, two above
LenBytes(rem) == IF rem <= 256 THEN 1 ELSE 2

\* get_bytes(size) in both arms: the peeked slice is consumed whole
LimitedStringEatsSlice(max, drawn, buf) ==
    LET sl == SubSeq(buf, 1, Min(drawn, max)) IN
    [s |-> SubSeq(sl, 1, ValidUpTo(sl)),
     unread |-> SubSeq(buf, Len(sl) + 1, Len(buf))]

\* limited_string once arbitrary_len has returned `drawn`, on the bytes
\* `buf`: the string returned and the bytes left unread
LimitedStringOn(max, drawn, buf) ==
    LET sl == SubSeq(buf, 1, Min(drawn, max))
        valid == ValidUpTo(sl)
    IN [s |-> SubSeq(sl, 1, valid), unread |-> SubSeq(buf, valid + 1, Len(buf))]

\* limited_string(max_size, u) for the buffers whose drawn size is in
\* `sizes` and whose bytes are in `alphabet`: the outcomes [s, rem]
LimitedStringOver(max, rem, sizes, alphabet) ==
    IF rem <= 1 THEN {[s |-> <<>>, rem |-> 0]}
    ELSE LET rest == rem - LenBytes(rem) IN
         UNION {
           { LET o == LimitedStringOn(max, z, sl) IN
             [s |-> o.s, rem |-> rest - (Len(sl) - Len(o.unread))]
             : sl \in SlicesOver(Min(z, max), alphabet) }
           : z \in {z \in sizes : z <= rest} }

\* limited_string(max_size, u): the outcomes [s, rem]
LimitedString(max, rem) ==
    LimitedStringOver(max, rem, 0..MaxStrLen, StrBytes)

-----------------------------------------------------------------------------
(* Configuration *)

Flags == BOOLEAN \X BOOLEAN

Cfg(ty, im, fn, tb, me, gl, ex, es, el, ds, fl) ==
    [max_types |-> ty, max_imports |-> im, max_funcs |-> fn,
     max_tables |-> tb, max_memories |-> me, max_globals |-> gl,
     max_exports |-> ex, max_element_segments |-> es, max_elements |-> el,
     max_data_segments |-> ds,
     bulk_memory_enabled |-> fl[1], reference_types_enabled |-> fl[2]]

\* the maxima of the configurations the model starts from, in the order
\* types, imports, funcs, tables, memories, globals, exports, element
\* segments, elements, data segments.  One row per part of the pipeline:
\* what the part needs is present, what it does not need is switched off,
\* so that a short buffer reaches it.
Maxima ==
    { <<0, 0, 0, 0, 0, 0, 0, 0, 0, 0>>,
      <<1, 1, 1, 1, 1, 1, 1, 1, 1, 1>>,
      \* types, function imports and local functions, start
      <<MaxCount, 1, MaxCount, 0, 0, 0, 1, 0, 0, 0>>,
      \* imports of every kind, local tables and memories
      <<1, MaxCount, 0, 1, MaxCount, 0, 1, 0, 0, 0>>,
      <<0, 0, 0, 1, MaxCount, 0, 1, 0, 0, 1>>,
      \* imported and local globals
      <<1, 1, 1, 0, 0, MaxCount, 1, 0, 0, 0>>,
      \* exports and their names
      <<1, 0, 1, 0, 0, 0, MaxCount + 1, 0, 0, 0>>,
      <<0, 0, 0, 1, 1, 1, MaxCount, 0, 0, 0>>,
      \* element segments
      <<1, 1, 1, 1, 0, 0, 1, MaxCount, MaxCount, 0>>,
      \* data segments
      <<0, 1, 0, 0, 1, 0, 0, 0, 0, MaxCount>> }

ConfigSet ==
    { Cfg(m[1], m[2], m[3], m[4], m[5], m[6], m[7], m[8], m[9], m[10], fl)
      : m \in Maxima, fl \in Flags }

-----------------------------------------------------------------------------
(* Index spaces *)

IsFunc(entry) == entry.imp.kind = "Func"
IsTable(entry) == entry.imp.kind = "Table"
IsMemory(entry) == entry.imp.kind = "Memory"
IsGlobal(entry) == entry.imp.kind = "Global"

func_imports(imps) == Len(SelectSeq(imps, IsFunc))
table_imports(imps) == Len(SelectSeq(imps, IsTable))
memory_imports(imps) == Len(SelectSeq(imps, IsMemory))
global_imports(imps) == Len(SelectSeq(imps, IsGlobal))

-----------------------------------------------------------------------------
(* arbitrary_loop *)

\* the loop test taken as `done > max`
KeepGoingPastMax(rem, done, max) == IF done > max THEN {FALSE} ELSE Bools(rem)

\* the draw read as `unwrap_or(true)`: an exhausted buffer keeps the loop going
KeepGoingOnEmpty(rem, done, max) ==
    IF done >= max THEN {FALSE} ELSE IF rem = 0 THEN {TRUE} ELSE BOOLEAN

\* a loop with no exit at the maximum: it spins once max is reached
KeepGoingNoExit(rem, done, max) == IF done >= max THEN {} ELSE Bools(rem)

\* the `continue` draws of a loop that has made `done` of at most `max`
\* iterations: none is made once max is reached
KeepGoing(rem, done, max) == IF done >= max THEN {FALSE} ELSE Bools(rem)
AfterKeep(rem, done, max) == IF done >= max THEN rem ELSE Take(rem, 1)

\* the same for a nested loop over value types, whose draws come true at
\* most MaxList times
NestedKeepGoing(rem, done, max) ==
    IF done >= MaxList THEN {FALSE} ELSE KeepGoing(rem, done, max)

\* the entries of `valtypes` a list element is chosen from: the first and
\* the last stand for the list
ListValtypes(rem, vts) == IF rem = 0 THEN {1} ELSE {1, Len(vts)}

RECURSIVE ValtypeLoopFrom(_, _, _, _)
\* arbitrary_loop(u, max, |u| list.push(self.arbitrary_valtype(u)?)) after
\* `done` iterations: the outcomes [list, rem]
ValtypeLoopFrom(rem, done, max, vts) ==
    {[list |-> <<>>, rem |-> AfterKeep(rem, done, max)]} \cup
    UNION {
      { [list |-> <<vts[i]>> \o o.list, rem |-> o.rem]
        : o \in ValtypeLoopFrom(AfterChoose(Take(rem, 1), Len(vts)), done + 1, max, vts) }
      : i \in IF TRUE \in NestedKeepGoing(rem, done, max)
              THEN ListValtypes(Take(rem, 1), vts) ELSE {} }

ValtypeLoop(rem, max, vts) == ValtypeLoopFrom(rem, 0, max, vts)

-----------------------------------------------------------------------------
(* Limits::limited and the types built from it *)

\* the maximum drawn from 0..=max, whatever the minimum
LimitedMaxFromZero(rem, max) ==
    UNION {
      LET r1 == AfterInt(rem, 0, max) IN
      UNION {
        IF ~has_max THEN {[limits |-> [min |-> min, max |-> None], rem |-> Take(r1, 1)]}
        ELSE { [limits |-> [min |-> min, max |-> Some(mx)],
                rem |-> AfterInt(Take(r1, 1), 0, max)]
               : mx \in WideInRange(Take(r1, 1), 0, max) }
        : has_max \in Bools(r1) }
      : min \in WideInRange(rem, 0, max) }

\* the outcomes [limits, rem]
Limited(rem, max) ==
    UNION {
      LET r1 == AfterInt(rem, 0, max) IN
      UNION {
        IF ~has_max THEN {[limits |-> [min |-> min, max |-> None], rem |-> Take(r1, 1)]}
        ELSE IF min = max
        THEN {[limits |-> [min |-> min, max |-> Some(max)], rem |-> Take(r1, 1)]}
        ELSE { [limits |-> [min |-> min, max |-> Some(mx)],
                rem |-> AfterInt(Take(r1, 1), min, max)]
               : mx \in WideInRange(Take(r1, 1), min, max) }
        : has_max \in Bools(r1) }
      : min \in WideInRange(rem, 0, max) }

\* impl Arbitrary for MemoryType: the outcomes [ty, rem]
ArbitraryMemoryType(rem) ==
    {[ty |-> [limits |-> o.limits], rem |-> o.rem] : o \in Limited(rem, MemoryCap)}

\* the element types arbitrary_table_type draws from, and the bytes read
TableElemChoices(cfg) ==
    IF cfg.reference_types_enabled THEN <<"FuncRef">> ELSE <<"FuncRef", "ExternRef">>

\* arbitrary_table_type: the outcomes [ty, rem]
ArbitraryTableType(cfg, rem) ==
    LET ch == TableElemChoices(cfg) IN
    UNION {
      { [ty |-> [elem_ty |-> ch[i], limits |-> o.limits], rem |-> o.rem]
        : o \in Limited(AfterChoose(rem, Len(ch)), TableCap) }
      : i \in ChooseIdx(rem, Len(ch)) }

\* arbitrary_global_type: the outcomes [ty, rem]
ArbitraryGlobalType(vts, rem) ==
    UNION {
      LET r1 == AfterChoose(rem, Len(vts)) IN
      { [ty |-> [val_type |-> vts[i], mutable |-> m], rem |-> Take(r1, 1)]
        : m \in Bools(r1) }
      : i \in ChooseIdx(rem, Len(vts)) }

-----------------------------------------------------------------------------
(* build: the initial state and the value-type universe *)

\* the lengths of the byte buffers tried
Budgets == {0, MaxBytes - 1, MaxBytes}

Init ==
    /\ pc = "valtypes"
    /\ config \in ConfigSet
    /\ allow_invalid \in (IF config.max_funcs > 0 THEN BOOLEAN ELSE {FALSE})
    /\ remaining \in Budgets
    /\ failure = "none"
    /\ valtypes = <<>>
    /\ types = <<>>
    /\ imports = <<>>
    /\ funcs = <<>>
    /\ tables = <<>>
    /\ memories = <<>>
    /\ globals = <<>>
    /\ exports = <<>>
    /\ start = None
    /\ elems = <<>>
    /\ code = <<>>
    /\ data = <<>>
    /\ export_names = {}
    /\ drawn_name = <<>>
    /\ tokens = <<>>
    /\ cursor = 0
    /\ items = <<>>
    /\ result = "idle"
    /\ input = <<>>
    /\ max_size = 0
    /\ size = 0
    /\ string = None
    /\ unread = <<>>

\* a hard failure ends the run: build returns Err (or panics)
Fail(what) ==
    /\ failure' = what
    /\ pc' = "failed"

ValtypeUniverse(cfg) ==
    <<"I32", "I64", "F32", "F64">> \o
    (IF cfg.reference_types_enabled THEN <<"ExternRef", "FuncRef">> ELSE <<>>)

Valtypes ==
    /\ pc = "valtypes"
    /\ valtypes' = ValtypeUniverse(config)
    /\ pc' = "types"
    /\ UNCHANGED <<config, allow_invalid, remaining, failure, types, imports,
                   funcs, tables, memories, globals, exports, start, elems,
                   code, data, export_names, drawn_name>>
    /\ UNCHANGED <<list_vars, str_vars>>

-----------------------------------------------------------------------------
(* arbitrary_types *)

\* one iteration's body: the outcomes [ty, rem]
TypeOutcomes(vts, rem) ==
    UNION {
      { [ty |-> [params |-> p.list, results |-> r.list], rem |-> r.rem]
        : r \in ValtypeLoop(p.rem, ParamCap, vts) }
      : p \in ValtypeLoop(rem, ParamCap, vts) }

TypesStep ==
    /\ pc = "types"
    /\ TRUE \in KeepGoing(remaining, Len(types), config.max_types)
    /\ \E o \in TypeOutcomes(valtypes, Take(remaining, 1)) :
         /\ types' = Append(types, o.ty)
         /\ remaining' = o.rem
    /\ UNCHANGED <<pc, config, allow_invalid, failure, valtypes, imports,
                   funcs, tables, memories, globals, exports, start, elems,
                   code, data, export_names, drawn_name>>
    /\ UNCHANGED <<list_vars, str_vars>>

\* build calling arbitrary_funcs right after arbitrary_types
TypesDoneSkippingImports ==
    /\ pc = "types"
    /\ FALSE \in KeepGoing(remaining, Len(types), config.max_types)
    /\ remaining' = AfterKeep(remaining, Len(types), config.max_types)
    /\ pc' = "funcs"
    /\ UNCHANGED <<config, allow_invalid, failure, valtypes, types, imports,
                   funcs, tables, memories, globals, exports, start, elems,
                   code, data, export_names, drawn_name>>
    /\ UNCHANGED <<list_vars, str_vars>>

TypesDone ==
    /\ pc = "types"
    /\ FALSE \in KeepGoing(remaining, Len(types), config.max_types)
    /\ remaining' = AfterKeep(remaining, Len(types), config.max_types)
    /\ pc' = "imports"
    /\ UNCHANGED <<config, allow_invalid, failure, valtypes, types, imports,
                   funcs, tables, memories, globals, exports, start, elems,
                   code, data, export_names, drawn_name>>
    /\ UNCHANGED <<list_vars, str_vars>>

-----------------------------------------------------------------------------
(* arbitrary_imports *)

\* Memory and Table offered in every iteration, whatever the counts
ImportChoicesUncapped(cfg, tys, imps) ==
    (IF tys # <<>> THEN <<"Func">> ELSE <<>>) \o <<"Global", "Memory", "Table">>

\* `choices` at the top of an iteration: the stable choices (Func only if a
\* type exists, Global), then Memory and Table while under their maxima.
\* The pop after a memory import is undone by the next iteration's
\* truncate and push, so the list depends on the counts alone.
ImportChoices(cfg, tys, imps) ==
    (IF tys # <<>> THEN <<"Func">> ELSE <<>>) \o <<"Global">> \o
    (IF memory_imports(imps) < cfg.max_memories THEN <<"Memory">> ELSE <<>>) \o
    (IF table_imports(imps) < cfg.max_tables THEN <<"Table">> ELSE <<>>)

\* the chosen closure: the outcomes [imp, rem, fail]
ImportPayload(kind, cfg, vts, tys, rem) ==
    CASE kind = "Func" ->
           { [imp |-> [kind |-> "Func", type_idx |-> t.v], rem |-> t.rem, fail |-> t.fail]
             : t \in IndexBelow(Len(tys), rem) }
      [] kind = "Global" ->
           { [imp |-> [kind |-> "Global", global |-> o.ty], rem |-> o.rem, fail |-> "none"]
             : o \in ArbitraryGlobalType(vts, rem) }
      [] kind = "Memory" ->
           { [imp |-> [kind |-> "Memory", memory |-> o.ty], rem |-> o.rem, fail |-> "none"]
             : o \in ArbitraryMemoryType(rem) }
      [] kind = "Table" ->
           { [imp |-> [kind |-> "Table", table |-> o.ty], rem |-> o.rem, fail |-> "none"]
             : o \in ArbitraryTableType(cfg, rem) }

\* the two names of an import, for the buffers whose drawn sizes are in
\* `sizes` and whose bytes are in `alphabet`: the outcomes [module, name, rem]
ImportNamesOver(rem, sizes, alphabet) ==
    UNION {
      { [module |-> m.s, name |-> n.s, rem |-> n.rem]
        : n \in LimitedStringOver(NameCap, m.rem, sizes, alphabet) }
      : m \in LimitedStringOver(NameCap, rem, sizes, alphabet) }

\* the two names of an import: the outcomes [module, name, rem]
ImportNames(rem) == ImportNamesOver(rem, 0..MaxStrLen, StrBytes)

\* one iteration's body: the outcomes [entry, rem, fail]
ImportOutcomes(cfg, vts, tys, imps, rem) ==
    LET ch == ImportChoices(cfg, tys, imps) IN
    UNION {
      IF ch = <<>>
      THEN {[entry |-> [module |-> nm.module, name |-> nm.name,
                        imp |-> [kind |-> "None"]],
             rem |-> nm.rem, fail |-> "EmptyChoose"]}
      ELSE UNION {
        { [entry |-> [module |-> nm.module, name |-> nm.name, imp |-> p.imp],
           rem |-> p.rem, fail |-> p.fail]
          : p \in ImportPayload(ch[i], cfg, vts, tys, AfterChoose(nm.rem, Len(ch))) }
        : i \in ChooseIdx(nm.rem, Len(ch)) }
      : nm \in ImportNames(rem) }

ImportsStep ==
    /\ pc = "imports"
    /\ TRUE \in KeepGoing(remaining, Len(imports), config.max_imports)
    /\ \E o \in ImportOutcomes(config, valtypes, types, imports, Take(remaining, 1)) :
         IF o.fail # "none"
         THEN Fail(o.fail) /\ UNCHANGED <<imports, remaining>>
         ELSE /\ imports' = Append(imports, o.entry)
              /\ remaining' = o.rem
              /\ UNCHANGED <<pc, failure>>
    /\ UNCHANGED <<config, allow_invalid, valtypes, types, funcs, tables,
                   memories, globals, exports, start, elems, code, data,
                   export_names, drawn_name>>
    /\ UNCHANGED <<list_vars, str_vars>>

ImportsDone ==
    /\ pc = "imports"
    /\ FALSE \in KeepGoing(remaining, Len(imports), config.max_imports)
    /\ remaining' = AfterKeep(remaining, Len(imports), config.max_imports)
    /\ pc' = "funcs"
    /\ UNCHANGED <<config, allow_invalid, failure, valtypes, types, imports,
                   funcs, tables, memories, globals, exports, start, elems,
                   code, data, export_names, drawn_name>>
    /\ UNCHANGED <<list_vars, str_vars>>

-----------------------------------------------------------------------------
(* arbitrary_funcs *)

\* the early return left out
FuncsNeverSkipped(tys) == FALSE

\* the early return of arbitrary_funcs
FuncsSkipped(tys) == tys = <<>>

\* one iteration's body: the outcomes [ty, rem, fail]
FuncOutcomes(tys, rem) ==
    {[ty |-> t.v, rem |-> t.rem, fail |-> t.fail] : t \in IndexBelow(Len(tys), rem)}

FuncsStep ==
    /\ pc = "funcs"
    /\ ~FuncsSkipped(types)
    /\ TRUE \in KeepGoing(remaining, Len(funcs), config.max_funcs)
    /\ \E o \in FuncOutcomes(types, Take(remaining, 1)) :
         IF o.fail # "none"
         THEN Fail(o.fail) /\ UNCHANGED <<funcs, remaining>>
         ELSE /\ funcs' = Append(funcs, o.ty)
              /\ remaining' = o.rem
              /\ UNCHANGED <<pc, failure>>
    /\ UNCHANGED <<config, allow_invalid, valtypes, types, imports, tables,
                   memories, globals, exports, start, elems, code, data,
                   export_names, drawn_name>>
    /\ UNCHANGED <<list_vars, str_vars>>

FuncsDone ==
    /\ pc = "funcs"
    /\ \/ /\ FuncsSkipped(types)
          /\ UNCHANGED remaining
       \/ /\ ~FuncsSkipped(types)
          /\ FALSE \in KeepGoing(remaining, Len(funcs), config.max_funcs)
          /\ remaining' = AfterKeep(remaining, Len(funcs), config.max_funcs)
    /\ pc' = "tables"
    /\ UNCHANGED <<config, allow_invalid, failure, valtypes, types, imports,
                   funcs, tables, memories, globals, exports, start, elems,
                   code, data, export_names, drawn_name>>
    /\ UNCHANGED <<list_vars, str_vars>>

-----------------------------------------------------------------------------
(* arbitrary_tables and arbitrary_memories *)

\* `max - imported` in u32: when imported > max a build with overflow
\* checks panics, a build without wraps
Underflows(max, imported) == imported > max
LocalMax(max, imported) ==
    IF Underflows(max, imported) THEN U32Max - (imported - max) + 1 ELSE max - imported

TablesStep ==
    /\ pc = "tables"
    /\ LET max_tables == LocalMax(config.max_tables, table_imports(imports)) IN
       /\ TRUE \in KeepGoing(remaining, Len(tables), max_tables)
       /\ \E o \in ArbitraryTableType(config, Take(remaining, 1)) :
            /\ tables' = Append(tables, o.ty)
            /\ remaining' = o.rem
    /\ UNCHANGED <<pc, config, allow_invalid, failure, valtypes, types,
                   imports, funcs, memories, globals, exports, start, elems,
                   code, data, export_names, drawn_name>>
    /\ UNCHANGED <<list_vars, str_vars>>

TablesDone ==
    /\ pc = "tables"
    /\ \/ /\ Underflows(config.max_tables, table_imports(imports))
          /\ Fail("Underflow")
          /\ UNCHANGED remaining
       \/ LET max_tables == LocalMax(config.max_tables, table_imports(imports)) IN
          /\ FALSE \in KeepGoing(remaining, Len(tables), max_tables)
          /\ remaining' = AfterKeep(remaining, Len(tables), max_tables)
          /\ pc' = "memories"
          /\ UNCHANGED failure
    /\ UNCHANGED <<config, allow_invalid, valtypes, types, imports, funcs,
                   tables, memories, globals, exports, start, elems, code,
                   data, export_names, drawn_name>>
    /\ UNCHANGED <<list_vars, str_vars>>

MemoriesStep ==
    /\ pc = "memories"
    /\ LET max_mems == LocalMax(config.max_memories, memory_imports(imports)) IN
       /\ TRUE \in KeepGoing(remaining, Len(memories), max_mems)
       /\ \E o \in ArbitraryMemoryType(Take(remaining, 1)) :
            /\ memories' = Append(memories, o.ty)
            /\ remaining' = o.rem
    /\ UNCHANGED <<pc, config, allow_invalid, failure, valtypes, types,
                   imports, funcs, tables, globals, exports, start, elems,
                   code, data, export_names, drawn_name>>
    /\ UNCHANGED <<list_vars, str_vars>>

MemoriesDone ==
    /\ pc = "memories"
    /\ \/ /\ Underflows(config.max_memories, memory_imports(imports))
          /\ Fail("Underflow")
          /\ UNCHANGED remaining
       \/ LET max_mems == LocalMax(config.max_memories, memory_imports(imports)) IN
          /\ FALSE \in KeepGoing(remaining, Len(memories), max_mems)
          /\ remaining' = AfterKeep(remaining, Len(memories), max_mems)
          /\ pc' = "globals"
          /\ UNCHANGED failure
    /\ UNCHANGED <<config, allow_invalid, valtypes, types, imports, funcs,
                   tables, memories, globals, exports, start, elems, code,
                   data, export_names, drawn_name>>
    /\ UNCHANGED <<list_vars, str_vars>>

-----------------------------------------------------------------------------
(* arbitrary_globals *)

\* the 0-based indices 0..n-1 as a sequence
Indices(n) == [i \in 1..n |-> i - 1]

\* the immutable imported globals, whatever their value type
ImmutableGlobalsAnyType(imps, vt) ==
    LET gl == SelectSeq(imps, IsGlobal) IN
    SelectSeq(Indices(Len(gl)), LAMBDA g : ~gl[g + 1].imp.global.mutable)

\* the imported globals of value type vt, mutable ones included
SameTypeGlobals(imps, vt) ==
    LET gl == SelectSeq(imps, IsGlobal) IN
    SelectSeq(Indices(Len(gl)), LAMBDA g : gl[g + 1].imp.global.val_type = vt)

\* the global indices of the imported globals that are immutable and of
\* value type vt, in import order (global_idx counts global imports only)
ImmutableGlobals(imps, vt) ==
    LET gl == SelectSeq(imps, IsGlobal) IN
    SelectSeq(Indices(Len(gl)),
              LAMBDA g : ~gl[g + 1].imp.global.mutable
                         /\ gl[g + 1].imp.global.val_type = vt)

\* bytes of the literal of a numeric type
LiteralBytes(vt) == IF vt \in {"I64", "F64"} THEN 8 ELSE 4
ConstOp(vt) ==
    CASE vt = "I32" -> "I32Const" [] vt = "I64" -> "I64Const"
      [] vt = "F32" -> "F32Const" [] vt = "F64" -> "F64Const"

\* the first choice, the literal closure: the outcomes [expr, rem, fail]
GlobalLiteral(vt, num_funcs, rem) ==
    CASE vt \in {"I32", "I64", "F32", "F64"} ->
           {[expr |-> [op |-> ConstOp(vt)], rem |-> Take(rem, LiteralBytes(vt)), fail |-> "none"]}
      [] vt = "ExternRef" ->
           {[expr |-> [op |-> "RefNull", ty |-> "ExternRef"], rem |-> rem, fail |-> "none"]}
      [] vt = "FuncRef" ->
           IF num_funcs > 0
           THEN UNION {
                  IF b
                  THEN { [expr |-> [op |-> "RefFunc", func |-> f.v],
                          rem |-> f.rem, fail |-> f.fail]
                         : f \in IndexBelow(num_funcs, Take(rem, 1)) }
                  ELSE {[expr |-> [op |-> "RefNull", ty |-> "FuncRef"],
                         rem |-> Take(rem, 1), fail |-> "none"]}
                  : b \in Bools(rem) }
           ELSE {[expr |-> [op |-> "RefNull", ty |-> "FuncRef"], rem |-> rem, fail |-> "none"]}

\* the initializer for a global of value type vt: the outcomes [expr, rem, fail]
GlobalInit(vt, imps, num_funcs, rem) ==
    LET gets == ImmutableGlobals(imps, vt)
        n == 1 + Len(gets)
    IN UNION {
         IF i = 1 THEN GlobalLiteral(vt, num_funcs, AfterChoose(rem, n))
         ELSE {[expr |-> [op |-> "GlobalGet", global |-> gets[i - 1]],
                rem |-> AfterChoose(rem, n), fail |-> "none"]}
         : i \in ChooseIdx(rem, n) }

\* one iteration's body: the outcomes [global, rem, fail]
GlobalOutcomes(vts, imps, fns, rem) ==
    UNION {
      { [global |-> [ty |-> t.ty, expr |-> e.expr], rem |-> e.rem, fail |-> e.fail]
        : e \in GlobalInit(t.ty.val_type, imps, Len(fns), t.rem) }
      : t \in ArbitraryGlobalType(vts, rem) }

GlobalsStep ==
    /\ pc = "globals"
    /\ TRUE \in KeepGoing(remaining, Len(globals), config.max_globals)
    /\ \E o \in GlobalOutcomes(valtypes, imports, funcs, Take(remaining, 1)) :
         IF o.fail # "none"
         THEN Fail(o.fail) /\ UNCHANGED <<globals, remaining>>
         ELSE /\ globals' = Append(globals, o.global)
              /\ remaining' = o.rem
              /\ UNCHANGED <<pc, failure>>
    /\ UNCHANGED <<config, allow_invalid, valtypes, types, imports, funcs,
                   tables, memories, exports, start, elems, code, data,
                   export_names, drawn_name>>
    /\ UNCHANGED <<list_vars, str_vars>>

GlobalsDone ==
    /\ pc = "globals"
    /\ FALSE \in KeepGoing(remaining, Len(globals), config.max_globals)
    /\ remaining' = AfterKeep(remaining, Len(globals), config.max_globals)
    /\ pc' = "exports"
    /\ UNCHANGED <<config, allow_invalid, failure, valtypes, types, imports,
                   funcs, tables, memories, globals, exports, start, elems,
                   code, data, export_names, drawn_name>>
    /\ UNCHANGED <<list_vars, str_vars>>

-----------------------------------------------------------------------------
(* arbitrary_exports *)

\* the static list of export closures, by kind
ExportChoices(imps, fns, tbls, mems, gls) ==
    (IF fns # <<>> THEN <<"Func">> ELSE <<>>) \o
    (IF table_imports(imps) > 0 \/ tbls # <<>> THEN <<"Table">> ELSE <<>>) \o
    (IF memory_imports(imps) > 0 \/ mems # <<>> THEN <<"Memory">> ELSE <<>>) \o
    (IF gls # <<>> THEN <<"Global">> ELSE <<>>)

\* the number of instances a closure of the kind draws its index from
ExportTotal(kind, imps, fns, tbls, mems, gls) ==
    CASE kind = "Func" -> func_imports(imps) + Len(fns)
      [] kind = "Table" -> table_imports(imps) + Len(tbls)
      [] kind = "Memory" -> memory_imports(imps) + Len(mems)
      [] kind = "Global" -> global_imports(imps) + Len(gls)

\* decimal digits of n, as bytes: format!("{}", n)
RECURSIVE ToDecimal(_)
ToDecimal(n) ==
    IF n < 10 THEN <<48 + n>> ELSE ToDecimal(n \div 10) \o <<48 + (n % 10)>>

RECURSIVE DedupNextSize(_, _)
\* the suffix taken as the size the set will have once the name is inserted
DedupNextSize(name, names) ==
    IF name \in names
    THEN DedupNextSize(name \o ToDecimal(Cardinality(names) + 1), names)
    ELSE name

\* the suffix appended once, with `if` in the place of `while`
DedupOnce(name, names) ==
    IF name \in names THEN name \o ToDecimal(Cardinality(names)) ELSE name

\* while export_names.contains(&name) { name.push_str(len) }
RECURSIVE Dedup(_, _)
Dedup(name, names) ==
    IF name \in names
    THEN Dedup(name \o ToDecimal(Cardinality(names)), names)
    ELSE name

\* the index drawn from 0..=total
ExportPayloadInclusive(kind, total, rem) ==
    { [export |-> [kind |-> kind, idx |-> i.v], rem |-> i.rem, fail |-> i.fail]
      : i \in IndexBelow(total + 1, rem) }

\* the chosen closure: the outcomes [export, rem, fail]
ExportPayload(kind, total, rem) ==
    { [export |-> [kind |-> kind, idx |-> i.v], rem |-> i.rem, fail |-> i.fail]
      : i \in IndexBelow(total, rem) }

\* one iteration's body: the outcomes [drawn, name, export, rem, fail]
ExportOutcomes(names, imps, fns, tbls, mems, gls, rem) ==
    LET ch == ExportChoices(imps, fns, tbls, mems, gls) IN
    UNION {
      LET name == Dedup(nm.s, names) IN
      IF ch = <<>>
      THEN {[drawn |-> nm.s, name |-> name, export |-> [kind |-> "None", idx |-> 0],
             rem |-> nm.rem, fail |-> "EmptyChoose"]}
      ELSE UNION {
        { [drawn |-> nm.s, name |-> name, export |-> p.export, rem |-> p.rem,
           fail |-> p.fail]
          : p \in ExportPayload(ch[i], ExportTotal(ch[i], imps, fns, tbls, mems, gls),
                                AfterChoose(nm.rem, Len(ch))) }
        : i \in ChooseIdx(nm.rem, Len(ch)) }
      : nm \in LimitedString(NameCap, rem) }

\* the early return of arbitrary_exports
ExportsSkipped(imps, fns, tbls, mems, gls) ==
    ExportChoices(imps, fns, tbls, mems, gls) = <<>>

ExportsStep ==
    /\ pc = "exports"
    /\ ~ExportsSkipped(imports, funcs, tables, memories, globals)
    /\ TRUE \in KeepGoing(remaining, Len(exports), config.max_exports)
    /\ \E o \in ExportOutcomes(export_names, imports, funcs, tables, memories,
                               globals, Take(remaining, 1)) :
         \* the name is inserted before the closure is chosen and run
         /\ drawn_name' = o.drawn
         /\ export_names' = export_names \cup {o.name}
         /\ IF o.fail # "none"
            THEN Fail(o.fail) /\ UNCHANGED <<exports, remaining>>
            ELSE /\ exports' = Append(exports, [name |-> o.name, export |-> o.export])
                 /\ remaining' = o.rem
                 /\ UNCHANGED <<pc, failure>>
    /\ UNCHANGED <<config, allow_invalid, valtypes, types, imports, funcs,
                   tables, memories, globals, start, elems, code, data>>
    /\ UNCHANGED <<list_vars, str_vars>>

ExportsDone ==
    /\ pc = "exports"
    /\ \/ /\ ExportsSkipped(imports, funcs, tables, memories, globals)
          /\ UNCHANGED remaining
       \/ /\ ~ExportsSkipped(imports, funcs, tables, memories, globals)
          /\ FALSE \in KeepGoing(remaining, Len(exports), config.max_exports)
          /\ remaining' = AfterKeep(remaining, Len(exports), config.max_exports)
    /\ pc' = "start"
    /\ UNCHANGED <<config, allow_invalid, failure, valtypes, types, imports,
                   funcs, tables, memories, globals, exports, start, elems,
                   code, data, export_names, drawn_name>>
    /\ UNCHANGED <<list_vars, str_vars>>

-----------------------------------------------------------------------------
(* arbitrary_start *)

\* the type index of every function, imported first, then local
FuncTypeIdxs(imps, fns) ==
    LET fi == SelectSeq(imps, IsFunc) IN
    [i \in 1..Len(fi) |-> fi[i].imp.type_idx] \o fns

\* every function index, whatever its type
StartChoicesAnyType(tys, imps, fns) == Indices(Len(FuncTypeIdxs(imps, fns)))

\* the function indices whose type has no parameters and no results
StartChoices(tys, imps, fns) ==
    LET all == FuncTypeIdxs(imps, fns) IN
    SelectSeq(Indices(Len(all)),
              LAMBDA f : tys[all[f + 1] + 1].params = <<>>
                         /\ tys[all[f + 1] + 1].results = <<>>)

Start ==
    /\ pc = "start"
    /\ LET ch == StartChoices(types, imports, funcs) IN
       IF ch = <<>>
       THEN UNCHANGED <<start, remaining>>
       ELSE \E b \in Bools(remaining) :
              IF b
              THEN \E i \in ChooseIdx(Take(remaining, 1), Len(ch)) :
                     /\ start' = Some(ch[i])
                     /\ remaining' = AfterChoose(Take(remaining, 1), Len(ch))
              ELSE /\ UNCHANGED start
                   /\ remaining' = Take(remaining, 1)
    /\ pc' = "elems"
    /\ UNCHANGED <<config, allow_invalid, failure, valtypes, types, imports,
                   funcs, tables, memories, globals, exports, elems, code,
                   data, export_names, drawn_name>>
    /\ UNCHANGED <<list_vars, str_vars>>

-----------------------------------------------------------------------------
(* arbitrary_elems *)

\* the element type of every table, imported first, then local
TableTys(imps, tbls) ==
    LET ti == SelectSeq(imps, IsTable) IN
    [i \in 1..Len(ti) |-> ti[i].imp.table.elem_ty] \o
    [i \in 1..Len(tbls) |-> tbls[i].elem_ty]

\* the closure arbitrary_offset: the outcomes [expr, rem]
ArbitraryOffset(imps, rem) ==
    LET gs == ImmutableGlobals(imps, "I32")
        const(r) == [expr |-> [op |-> "I32Const"], rem |-> Take(r, 4)]
    IN IF gs = <<>> THEN {const(rem)}
       ELSE UNION {
              IF b
              THEN { [expr |-> [op |-> "GlobalGet", global |-> gs[i]],
                      rem |-> AfterChoose(Take(rem, 1), Len(gs))]
                     : i \in ChooseIdx(Take(rem, 1), Len(gs)) }
              ELSE {const(Take(rem, 1))}
              : b \in Bools(rem) }

\* the Passive and Declared shapes pushed whatever the feature flag says
ElemChoicesUngated(cfg, table_tys) ==
    (IF Len(table_tys) > 0 /\ table_tys[1] = "FuncRef" THEN <<"Mvp">> ELSE <<>>) \o
    (IF Len(table_tys) > 0 /\ cfg.reference_types_enabled THEN <<"ActiveAny">> ELSE <<>>) \o
    <<"PassiveFuncRef", "PassiveExternRef", "DeclaredFuncRef", "DeclaredExternRef">>

\* the MVP shape offered whenever a table exists, whatever its element type
ElemChoicesMvpAnyTable(cfg, table_tys) ==
    (IF Len(table_tys) > 0 THEN <<"Mvp">> ELSE <<>>) \o
    (IF Len(table_tys) > 0 /\ cfg.reference_types_enabled THEN <<"ActiveAny">> ELSE <<>>) \o
    (IF cfg.reference_types_enabled
     THEN <<"PassiveFuncRef", "PassiveExternRef", "DeclaredFuncRef", "DeclaredExternRef">>
     ELSE <<>>)

\* the list of segment shapes `choices` holds
ElemChoices(cfg, table_tys) ==
    (IF Len(table_tys) > 0 /\ table_tys[1] = "FuncRef" THEN <<"Mvp">> ELSE <<>>) \o
    (IF Len(table_tys) > 0 /\ cfg.reference_types_enabled THEN <<"ActiveAny">> ELSE <<>>) \o
    (IF cfg.reference_types_enabled
     THEN <<"PassiveFuncRef", "PassiveExternRef", "DeclaredFuncRef", "DeclaredExternRef">>
     ELSE <<>>)

\* the chosen shape's closure: the outcomes [kind, ty, rem, fail]
ElemShape(shape, imps, table_tys, rem) ==
    CASE shape = "Mvp" ->
           { [kind |-> [kind |-> "Active", table |-> None, offset |-> o.expr],
              ty |-> table_tys[1], rem |-> o.rem, fail |-> "none"]
             : o \in ArbitraryOffset(imps, rem) }
      [] shape = "ActiveAny" ->
           UNION {
             \* table_tys[i] panics when i is out of bounds
             IF i.fail # "none" \/ i.v >= Len(table_tys)
             THEN {[kind |-> [kind |-> "Active", table |-> Some(i.v),
                              offset |-> [op |-> "I32Const"]],
                    ty |-> "FuncRef", rem |-> i.rem,
                    fail |-> IF i.fail # "none" THEN i.fail ELSE "OutOfBounds"]}
             ELSE { [kind |-> [kind |-> "Active", table |-> Some(i.v), offset |-> o.expr],
                     ty |-> table_tys[i.v + 1], rem |-> o.rem, fail |-> "none"]
                    : o \in ArbitraryOffset(imps, i.rem) }
             : i \in IndexBelow(Len(table_tys), rem) }
      [] shape = "PassiveFuncRef" ->
           {[kind |-> [kind |-> "Passive"], ty |-> "FuncRef", rem |-> rem, fail |-> "none"]}
      [] shape = "PassiveExternRef" ->
           {[kind |-> [kind |-> "Passive"], ty |-> "ExternRef", rem |-> rem, fail |-> "none"]}
      [] shape = "DeclaredFuncRef" ->
           {[kind |-> [kind |-> "Declared"], ty |-> "FuncRef", rem |-> rem, fail |-> "none"]}
      [] shape = "DeclaredExternRef" ->
           {[kind |-> [kind |-> "Declared"], ty |-> "ExternRef", rem |-> rem, fail |-> "none"]}

\* the range taken as 0..=func_max
ElemFuncIdxInclusive(func_max, rem) ==
    { [v |-> f, rem |-> AfterInt(rem, 0, func_max)]
      : f \in IntInRange(rem, 0, func_max) }

\* u.int_in_range(0..=func_max - 1), drawn only where func_max > 0: [v, rem]
ElemFuncIdx(func_max, rem) ==
    { [v |-> f, rem |-> AfterInt(rem, 0, func_max - 1)]
      : f \in IntInRange(rem, 0, func_max - 1) }

\* one entry of an Expressions payload: the outcomes [e, rem]
ExprEntry(ty, func_max, rem) ==
    IF ty = "ExternRef" \/ func_max = 0 THEN {[e |-> None, rem |-> rem]}
    ELSE UNION {
           IF b THEN {[e |-> None, rem |-> Take(rem, 1)]}
           ELSE {[e |-> Some(f.v), rem |-> f.rem] : f \in ElemFuncIdx(func_max, Take(rem, 1))}
           : b \in Bools(rem) }

RECURSIVE ExprLoop(_, _, _, _)
\* the arbitrary_loop that fills an Expressions payload: [list, rem]
ExprLoop(rem, max, ty, func_max) ==
    {[list |-> <<>>, rem |-> AfterKeep(rem, 0, max)]} \cup
    UNION {
      { [list |-> <<e.e>> \o o.list, rem |-> o.rem]
        : o \in ExprLoop(e.rem, max - 1, ty, func_max) }
      : e \in IF TRUE \in KeepGoing(rem, 0, max)
              THEN ExprEntry(ty, func_max, Take(rem, 1)) ELSE {} }

RECURSIVE FuncIdxLoop(_, _, _)
\* the arbitrary_loop that fills a Functions payload (func_max > 0)
FuncIdxLoop(rem, max, func_max) ==
    {[list |-> <<>>, rem |-> AfterKeep(rem, 0, max)]} \cup
    UNION {
      { [list |-> <<f.v>> \o o.list, rem |-> o.rem]
        : o \in FuncIdxLoop(f.rem, max - 1, func_max) }
      : f \in IF TRUE \in KeepGoing(rem, 0, max)
              THEN ElemFuncIdx(func_max, Take(rem, 1)) ELSE {} }

\* the form decided by the flag and the coin alone, whatever the type
ElemFormByCoin(cfg, ty, rem) ==
    IF cfg.reference_types_enabled
    THEN {[expr |-> b, rem |-> Take(rem, 1)] : b \in Bools(rem)}
    ELSE {[expr |-> FALSE, rem |-> rem]}

\* whether the payload takes the Expressions form: the outcomes [expr, rem]
ElemForm(cfg, ty, rem) ==
    IF ty = "ExternRef" THEN {[expr |-> TRUE, rem |-> rem]}
    ELSE IF cfg.reference_types_enabled
    THEN {[expr |-> b, rem |-> Take(rem, 1)] : b \in Bools(rem)}
    ELSE {[expr |-> FALSE, rem |-> rem]}

\* the payload of a segment of type ty: the outcomes [items, rem]
ElemItems(cfg, ty, func_max, rem) ==
    UNION {
      IF fm.expr
      THEN { [items |-> [form |-> "Expressions", exprs |-> o.list], rem |-> o.rem]
             : o \in ExprLoop(fm.rem, cfg.max_elements, ty, func_max) }
      ELSE IF func_max > 0
      THEN { [items |-> [form |-> "Functions", funcs |-> o.list], rem |-> o.rem]
             : o \in FuncIdxLoop(fm.rem, cfg.max_elements, func_max) }
      ELSE {[items |-> [form |-> "Functions", funcs |-> <<>>], rem |-> fm.rem]}
      : fm \in ElemForm(cfg, ty, rem) }

\* one iteration's body: the outcomes [seg, rem, fail]
ElemOutcomes(cfg, imps, fns, tbls, rem) ==
    LET func_max == func_imports(imps) + Len(fns)
        table_tys == TableTys(imps, tbls)
        ch == ElemChoices(cfg, table_tys)
    IN IF ch = <<>>
       THEN {[seg |-> [kind |-> [kind |-> "Passive"], ty |-> "FuncRef"],
              rem |-> rem, fail |-> "EmptyChoose"]}
       ELSE UNION { UNION {
              IF sh.fail # "none"
              THEN {[seg |-> [kind |-> sh.kind, ty |-> sh.ty], rem |-> sh.rem, fail |-> sh.fail]}
              ELSE { [seg |-> [kind |-> sh.kind, ty |-> sh.ty, items |-> it.items],
                      rem |-> it.rem, fail |-> "none"]
                     : it \in ElemItems(cfg, sh.ty, func_max, sh.rem) }
              : sh \in ElemShape(ch[i], imps, table_tys, AfterChoose(rem, Len(ch))) }
            : i \in ChooseIdx(rem, Len(ch)) }

\* the early return of arbitrary_elems
ElemsSkipped(cfg, imps, tbls) == ElemChoices(cfg, TableTys(imps, tbls)) = <<>>

ElemsStep ==
    /\ pc = "elems"
    /\ ~ElemsSkipped(config, imports, tables)
    /\ TRUE \in KeepGoing(remaining, Len(elems), config.max_element_segments)
    /\ \E o \in ElemOutcomes(config, imports, funcs, tables, Take(remaining, 1)) :
         IF o.fail # "none"
         THEN Fail(o.fail) /\ UNCHANGED <<elems, remaining>>
         ELSE /\ elems' = Append(elems, o.seg)
              /\ remaining' = o.rem
              /\ UNCHANGED <<pc, failure>>
    /\ UNCHANGED <<config, allow_invalid, valtypes, types, imports, funcs,
                   tables, memories, globals, exports, start, code, data,
                   export_names, drawn_name>>
    /\ UNCHANGED <<list_vars, str_vars>>

ElemsDone ==
    /\ pc = "elems"
    /\ \/ /\ ElemsSkipped(config, imports, tables)
          /\ UNCHANGED remaining
       \/ /\ ~ElemsSkipped(config, imports, tables)
          /\ FALSE \in KeepGoing(remaining, Len(elems), config.max_element_segments)
          /\ remaining' = AfterKeep(remaining, Len(elems), config.max_element_segments)
    /\ pc' = "data"
    /\ UNCHANGED <<config, allow_invalid, failure, valtypes, types, imports,
                   funcs, tables, memories, globals, exports, start, elems,
                   code, data, export_names, drawn_name>>
    /\ UNCHANGED <<list_vars, str_vars>>

-----------------------------------------------------------------------------
(* arbitrary_data *)

\* `memories`: the imported plus the local memories
MemoryCount(imps, mems) == Len(mems) + memory_imports(imps)

\* the early return of arbitrary_data
DataSkipped(cfg, imps, mems) ==
    MemoryCount(imps, mems) = 0 /\ ~cfg.bulk_memory_enabled

\* `memories == 0 || u.arbitrary()?` without the bulk-memory test
DataPassiveWithoutBulk(cfg, n_mems, rem) ==
    IF n_mems = 0 THEN {[passive |-> TRUE, rem |-> rem]}
    ELSE {[passive |-> b, rem |-> Take(rem, 1)] : b \in Bools(rem)}

\* the kind left to the coin alone, `memories == 0` not looked at
DataPassiveByCoin(cfg, n_mems, rem) ==
    IF ~cfg.bulk_memory_enabled THEN {[passive |-> FALSE, rem |-> rem]}
    ELSE {[passive |-> b, rem |-> Take(rem, 1)] : b \in Bools(rem)}

\* whether the segment is Passive: the outcomes [passive, rem]
DataPassive(cfg, n_mems, rem) ==
    IF ~cfg.bulk_memory_enabled THEN {[passive |-> FALSE, rem |-> rem]}
    ELSE IF n_mems = 0 THEN {[passive |-> TRUE, rem |-> rem]}
    ELSE {[passive |-> b, rem |-> Take(rem, 1)] : b \in Bools(rem)}

\* the offset closures of `choices`: I32Const first, then one GlobalGet per
\* immutable imported I32 global: the outcomes [expr, rem]
DataOffset(imps, rem) ==
    LET gs == ImmutableGlobals(imps, "I32")
        n == 1 + Len(gs)
    IN { IF i = 1
         THEN [expr |-> [op |-> "I32Const"], rem |-> Take(AfterChoose(rem, n), 4)]
         ELSE [expr |-> [op |-> "GlobalGet", global |-> gs[i - 1]],
               rem |-> AfterChoose(rem, n)]
         : i \in ChooseIdx(rem, n) }

\* the kind of one segment: the outcomes [kind, rem, fail]
DataKind(cfg, imps, n_mems, rem) ==
    UNION {
      IF p.passive
      THEN {[kind |-> [kind |-> "Passive"], rem |-> p.rem, fail |-> "none"]}
      ELSE UNION {
             { [kind |-> [kind |-> "Active", memory_index |-> m.v, offset |-> o.expr],
                rem |-> m.rem, fail |-> m.fail]
               : m \in IndexBelow(n_mems, o.rem) }
             : o \in DataOffset(imps, p.rem) }
      : p \in DataPassive(cfg, n_mems, rem) }

RECURSIVE ByteVec(_)
\* u.arbitrary::<Vec<u8>>(): its length and the bytes left: [len, rem]
ByteVec(rem) ==
    {[len |-> 0, rem |-> Take(rem, 1)]} \cup
    (IF rem = 0 THEN {}
     ELSE {[len |-> o.len + 1, rem |-> o.rem] : o \in ByteVec(Take(rem, 2))})

\* one iteration's body: the outcomes [seg, rem, fail]
DataOutcomes(cfg, imps, mems, rem) ==
    UNION {
      IF k.fail # "none"
      THEN {[seg |-> [kind |-> k.kind, init |-> 0], rem |-> k.rem, fail |-> k.fail]}
      ELSE { [seg |-> [kind |-> k.kind, init |-> v.len], rem |-> v.rem, fail |-> "none"]
             : v \in ByteVec(k.rem) }
      : k \in DataKind(cfg, imps, MemoryCount(imps, mems), rem) }

DataStep ==
    /\ pc = "data"
    /\ ~DataSkipped(config, imports, memories)
    /\ TRUE \in KeepGoing(remaining, Len(data), config.max_data_segments)
    /\ \E o \in DataOutcomes(config, imports, memories, Take(remaining, 1)) :
         IF o.fail # "none"
         THEN Fail(o.fail) /\ UNCHANGED <<data, remaining>>
         ELSE /\ data' = Append(data, o.seg)
              /\ remaining' = o.rem
              /\ UNCHANGED <<pc, failure>>
    /\ UNCHANGED <<config, allow_invalid, valtypes, types, imports, funcs,
                   tables, memories, globals, exports, start, elems, code,
                   export_names, drawn_name>>
    /\ UNCHANGED <<list_vars, str_vars>>

DataDone ==
    /\ pc = "data"
    /\ \/ /\ DataSkipped(config, imports, memories)
          /\ UNCHANGED remaining
       \/ /\ ~DataSkipped(config, imports, memories)
          /\ FALSE \in KeepGoing(remaining, Len(data), config.max_data_segments)
          /\ remaining' = AfterKeep(remaining, Len(data), config.max_data_segments)
    /\ pc' = "code"
    /\ UNCHANGED <<config, allow_invalid, failure, valtypes, types, imports,
                   funcs, tables, memories, globals, exports, start, elems,
                   code, data, export_names, drawn_name>>
    /\ UNCHANGED <<list_vars, str_vars>>

-----------------------------------------------------------------------------
(* arbitrary_code *)

\* the coin flipped in every mode
ArbitraryBodyAnyMode(invalid, rem) == Bools(rem)

\* `allow_invalid && u.arbitrary().unwrap_or(false)`: whether the body is an
\* arbitrary byte blob; no byte is read when allow_invalid is false
ArbitraryBody(invalid, rem) == IF invalid THEN Bools(rem) ELSE {FALSE}

\* the body's instructions: the outcomes [instructions, rem].  The code
\* builder and arbitrary_vec_u8 read any number of the bytes left.
BodyInstructions(invalid, rem) ==
    UNION {
      { [instructions |-> IF a THEN "Arbitrary" ELSE "Generated", rem |-> r]
        : r \in 0..(IF a THEN Take(rem, 1) ELSE rem) }
      : a \in ArbitraryBody(invalid, rem) }

\* every body built for the type of the first local function
BodyTypeFirst(fns, k) == fns[1]

\* the type index the k-th iteration of `for ty in &self.funcs` hands to
\* arbitrary_func_body
BodyType(fns, k) == fns[k]

\* arbitrary_func_body: the outcomes [body, rem]; a body keeps the type index
\* its builder was made for
FuncBody(ty, invalid, vts, rem) ==
    UNION {
      { [body |-> [ty |-> ty, locals |-> l.list, instructions |-> b.instructions],
         rem |-> b.rem]
        : b \in BodyInstructions(invalid, l.rem) }
      : l \in ValtypeLoop(rem, LocalCap, vts) }

CodeStep ==
    /\ pc = "code"
    /\ Len(code) < Len(funcs)
    /\ \E o \in FuncBody(BodyType(funcs, Len(code) + 1), allow_invalid,
                          valtypes, remaining) :
         /\ code' = Append(code, o.body)
         /\ remaining' = o.rem
    /\ UNCHANGED <<pc, config, allow_invalid, failure, valtypes, types,
                   imports, funcs, tables, memories, globals, exports, start,
                   elems, data, export_names, drawn_name>>
    /\ UNCHANGED <<list_vars, str_vars>>

CodeDone ==
    /\ pc = "code"
    /\ Len(code) >= Len(funcs)
    /\ pc' = "done"
    /\ UNCHANGED <<config, allow_invalid, remaining, failure, valtypes, types,
                   imports, funcs, tables, memories, globals, exports, start,
                   elems, code, data, export_names, drawn_name>>
    /\ UNCHANGED <<list_vars, str_vars>>

-----------------------------------------------------------------------------

Next ==
    \/ Valtypes
    \/ TypesStep \/ TypesDone
    \/ ImportsStep \/ ImportsDone
    \/ FuncsStep \/ FuncsDone
    \/ TablesStep \/ TablesDone
    \/ MemoriesStep \/ MemoriesDone
    \/ GlobalsStep \/ GlobalsDone
    \/ ExportsStep \/ ExportsDone
    \/ Start
    \/ ElemsStep \/ ElemsDone
    \/ DataStep \/ DataDone
    \/ CodeStep \/ CodeDone

Spec == Init /\ [][Next]_vars

\* build is one sequential call: whenever a step of the pipeline is possible
\* the next one is taken
FairSpec == Spec /\ WF_vars(Next)

-----------------------------------------------------------------------------
(* The capped loops and names on buffers long enough to reach the caps, the
   nested loops taken one iteration at a time *)

\* the length of the longest buffer tried against the caps
MaxCapBytes == 2100

\* the buffer lengths tried: empty, short of a full parameter list, enough
\* for full parameter and result lists, for a full list of locals, for two
\* names of full length
CapBudgets ==
    {0, 2 * ParamCap, 4 * ParamCap + 2, 2 * LocalCap + 2, MaxCapBytes}

\* the sizes drawn for a name: none, around the cap, the whole buffer
CapSizes == {0, NameCap - 1, NameCap, NameCap + 1, MaxCapBytes}

\* the value types an iteration of a value-type loop pushes, for the
\* buffers whose choice bytes all select the same entry of `valtypes`
RepeatPick(list, vts, rem) ==
    IF list = <<>> THEN {vts[k] : k \in ListValtypes(rem, vts)}
    ELSE IF rem = 0 THEN {vts[1]}
    ELSE {list[1]}

\* the function type the loops of arbitrary_types are filling
CapsCurrentType ==
    IF types = <<>> THEN [params |-> <<>>, results |-> <<>>] ELSE types[1]

\* the locals arbitrary_locals has pushed so far
CapsCurrentLocals == IF code = <<>> THEN <<>> ELSE code[1].locals

\* the configurations differ in their flags only: the caps are not configured
CapsInit ==
    /\ pc = "caps"
    /\ config \in {c \in ConfigSet : c.max_types = 1 /\ c.max_data_segments = 1}
    /\ allow_invalid = FALSE
    /\ remaining \in CapBudgets
    /\ failure = "none"
    /\ valtypes = ValtypeUniverse(config)
    /\ types = <<>>
    /\ imports = <<>>
    /\ funcs = <<>>
    /\ tables = <<>>
    /\ memories = <<>>
    /\ globals = <<>>
    /\ exports = <<>>
    /\ start = None
    /\ elems = <<>>
    /\ code = <<>>
    /\ data = <<>>
    /\ export_names = {}
    /\ drawn_name = <<>>
    /\ tokens = <<>>
    /\ cursor = 0
    /\ items = <<>>
    /\ result = "idle"
    /\ input = <<>>
    /\ max_size = 0
    /\ size = 0
    /\ string = None
    /\ unread = <<>>

\* one iteration of the parameter loop of arbitrary_types
CapsParam ==
    /\ pc \in {"caps", "params"}
    /\ LET cur == CapsCurrentType IN
       /\ TRUE \in KeepGoing(remaining, Len(cur.params), ParamCap)
       /\ \E v \in RepeatPick(cur.params, valtypes, Take(remaining, 1)) :
            types' = <<[params |-> Append(cur.params, v), results |-> <<>>]>>
       /\ remaining' = AfterChoose(Take(remaining, 1), Len(valtypes))
    /\ pc' = "params"
    /\ UNCHANGED <<config, allow_invalid, failure, valtypes, imports, funcs,
                   tables, memories, globals, exports, start, elems, code,
                   data, export_names, drawn_name>>
    /\ UNCHANGED <<list_vars, str_vars>>

\* the parameter loop ends: a false draw, or ParamCap iterations made
CapsParamsDone ==
    /\ pc \in {"caps", "params"}
    /\ FALSE \in KeepGoing(remaining, Len(CapsCurrentType.params), ParamCap)
    /\ types' = <<CapsCurrentType>>
    /\ remaining' = AfterKeep(remaining, Len(CapsCurrentType.params), ParamCap)
    /\ pc' = "results"
    /\ UNCHANGED <<config, allow_invalid, failure, valtypes, imports, funcs,
                   tables, memories, globals, exports, start, elems, code,
                   data, export_names, drawn_name>>
    /\ UNCHANGED <<list_vars, str_vars>>

\* one iteration of the result loop of arbitrary_types
CapsResult ==
    /\ pc = "results"
    /\ LET cur == CapsCurrentType IN
       /\ TRUE \in KeepGoing(remaining, Len(cur.results), ParamCap)
       /\ \E v \in RepeatPick(cur.results, valtypes, Take(remaining, 1)) :
            types' = <<[params |-> cur.params, results |-> Append(cur.results, v)]>>
       /\ remaining' = AfterChoose(Take(remaining, 1), Len(valtypes))
    /\ UNCHANGED <<pc, config, allow_invalid, failure, valtypes, imports,
                   funcs, tables, memories, globals, exports, start, elems,
                   code, data, export_names, drawn_name>>
    /\ UNCHANGED <<list_vars, str_vars>>

\* the result loop ends and the type is pushed
CapsResultsDone ==
    /\ pc = "results"
    /\ FALSE \in KeepGoing(remaining, Len(CapsCurrentType.results), ParamCap)
    /\ remaining' = AfterKeep(remaining, Len(CapsCurrentType.results), ParamCap)
    /\ pc' = "capped"
    /\ UNCHANGED <<config, allow_invalid, failure, valtypes, types, imports,
                   funcs, tables, memories, globals, exports, start, elems,
                   code, data, export_names, drawn_name>>
    /\ UNCHANGED <<list_vars, str_vars>>

\* one iteration of the loop of arbitrary_locals
CapsLocal ==
    /\ pc \in {"caps", "locals"}
    /\ TRUE \in KeepGoing(remaining, Len(CapsCurrentLocals), LocalCap)
    /\ \E v \in RepeatPick(CapsCurrentLocals, valtypes, Take(remaining, 1)) :
         code' = <<[ty |-> 0, locals |-> Append(CapsCurrentLocals, v),
                    instructions |-> "Generated"]>>
    /\ remaining' = AfterChoose(Take(remaining, 1), Len(valtypes))
    /\ pc' = "locals"
    /\ UNCHANGED <<config, allow_invalid, failure, valtypes, types, imports,
                   funcs, tables, memories, globals, exports, start, elems,
                   data, export_names, drawn_name>>
    /\ UNCHANGED <<list_vars, str_vars>>

\* the loop of arbitrary_locals ends: a false draw, or LocalCap iterations
CapsLocalsDone ==
    /\ pc \in {"caps", "locals"}
    /\ FALSE \in KeepGoing(remaining, Len(CapsCurrentLocals), LocalCap)
    /\ code' = <<[ty |-> 0, locals |-> CapsCurrentLocals,
                  instructions |-> "Generated"]>>
    /\ remaining' = AfterKeep(remaining, Len(CapsCurrentLocals), LocalCap)
    /\ pc' = "capped"
    /\ UNCHANGED <<config, allow_invalid, failure, valtypes, types, imports,
                   funcs, tables, memories, globals, exports, start, elems,
                   data, export_names, drawn_name>>
    /\ UNCHANGED <<list_vars, str_vars>>

\* the body of the loop of arbitrary_imports, once, for a global import
CapsImport ==
    /\ pc = "caps"
    /\ \E nm \in ImportNamesOver(remaining, CapSizes, {50}) :
         \E o \in ArbitraryGlobalType(valtypes, nm.rem) :
           /\ imports' = <<[module |-> nm.module, name |-> nm.name,
                            imp |-> [kind |-> "Global", global |-> o.ty]]>>
           /\ remaining' = o.rem
    /\ pc' = "capped"
    /\ UNCHANGED <<config, allow_invalid, failure, valtypes, types, funcs,
                   tables, memories, globals, exports, start, elems, code,
                   data, export_names, drawn_name>>
    /\ UNCHANGED <<list_vars, str_vars>>

CapsNext ==
    \/ CapsParam \/ CapsParamsDone
    \/ CapsResult \/ CapsResultsDone
    \/ CapsLocal \/ CapsLocalsDone
    \/ CapsImport

CapsSpec == CapsInit /\ [][CapsNext]_vars

-----------------------------------------------------------------------------
(* parse_list_trailer (wasm-compose), on token streams of bounded length *)

\* the length of the longest token stream tried
MaxTokens == 5

\* the kinds of token the list parser tells apart: one that is an item, the
\* comma, the end token, and any other token
TokenKinds == {"Item", "Comma", "End", "Other"}

\* the token streams tried
TokenStreams == UNION {[1..n -> TokenKinds] : n \in 0..MaxTokens}

\* the module state, which the list parser does not touch
build_vars ==
    <<pc, config, allow_invalid, remaining, failure, valtypes, types, imports,
      funcs, tables, memories, globals, exports, start, elems, code, data,
      export_names, drawn_name>>

\* the next token after c consumed ones, "Eof" at the end of input
Peek(toks, c) == IF c < Len(toks) THEN toks[c + 1] ELSE "Eof"

\* tokens.eat(t): the cursor after it; the token is consumed only if it is t
Eat(toks, c, t) == IF Peek(toks, c) = t THEN c + 1 ELSE c

\* parse(tokens, docs) for an item of one token: [ok, cursor]
ParseItem(toks, c) ==
    IF Peek(toks, c) = "Item" THEN [ok |-> TRUE, cursor |-> c + 1]
    ELSE [ok |-> FALSE, cursor |-> c]

\* the loop left after an item whatever follows it
AfterItemNoExpect(toks, c) ==
    IF Eat(toks, c, "Comma") # c
    THEN [cursor |-> c + 1, result |-> "running"]
    ELSE [cursor |-> Eat(toks, c, "End"), result |-> "Ok"]

\* `if !tokens.eat(Token::Comma)? { tokens.expect(end)?; break; }`: the
\* cursor and whether the loop goes on, has ended, or has failed
AfterItem(toks, c) ==
    IF Eat(toks, c, "Comma") # c
    THEN [cursor |-> c + 1, result |-> "running"]
    ELSE IF Peek(toks, c) = "End"
    THEN [cursor |-> c + 1, result |-> "Ok"]
    ELSE [cursor |-> c, result |-> "Err"]

ListInit ==
    /\ pc = "list"
    /\ config = Cfg(0, 0, 0, 0, 0, 0, 0, 0, 0, 0, <<FALSE, FALSE>>)
    /\ allow_invalid = FALSE
    /\ remaining = 0
    /\ failure = "none"
    /\ valtypes = <<>>
    /\ types = <<>>
    /\ imports = <<>>
    /\ funcs = <<>>
    /\ tables = <<>>
    /\ memories = <<>>
    /\ globals = <<>>
    /\ exports = <<>>
    /\ start = None
    /\ elems = <<>>
    /\ code = <<>>
    /\ data = <<>>
    /\ export_names = {}
    /\ drawn_name = <<>>
    /\ tokens \in TokenStreams
    /\ cursor = 0
    /\ items = <<>>
    /\ result = "running"
    /\ input = <<>>
    /\ max_size = 0
    /\ size = 0
    /\ string = None
    /\ unread = <<>>

\* one iteration of the loop of parse_list_trailer; an item is kept as the
\* position of its token in the stream
ListIter ==
    /\ result = "running"
    /\ IF Eat(tokens, cursor, "End") # cursor
       THEN /\ cursor' = cursor + 1
            /\ result' = "Ok"
            /\ UNCHANGED items
       ELSE LET item == ParseItem(tokens, cursor) IN
            IF ~item.ok
            THEN /\ result' = "Err"
                 /\ UNCHANGED <<cursor, items>>
            ELSE LET after == AfterItem(tokens, item.cursor) IN
                 /\ items' = Append(items, item.cursor)
                 /\ cursor' = after.cursor
                 /\ result' = after.result
    /\ UNCHANGED <<tokens, build_vars, str_vars>>

ListNext == ListIter

ListSpec == ListInit /\ [][ListNext]_vars

\* parse_list_trailer runs to its return
ListFairSpec == ListSpec /\ WF_vars(ListNext)

-----------------------------------------------------------------------------
(* limited_string, on byte buffers of bounded length *)

\* the length of the longest buffer a string is drawn from
MaxBuffer == 4

\* the bytes tried: ASCII '2', the two-byte lead 0xC2, the continuation 0xA9,
\* the three-byte lead 0xE0, and 0xFF, which no encoding contains
Utf8Bytes == {50, 194, 169, 224, 255}

StrInit ==
    /\ pc = "string"
    /\ config = Cfg(0, 0, 0, 0, 0, 0, 0, 0, 0, 0, <<FALSE, FALSE>>)
    /\ allow_invalid = FALSE
    /\ remaining = 0
    /\ failure = "none"
    /\ valtypes = <<>>
    /\ types = <<>>
    /\ imports = <<>>
    /\ funcs = <<>>
    /\ tables = <<>>
    /\ memories = <<>>
    /\ globals = <<>>
    /\ exports = <<>>
    /\ start = None
    /\ elems = <<>>
    /\ code = <<>>
    /\ data = <<>>
    /\ export_names = {}
    /\ drawn_name = <<>>
    /\ tokens = <<>>
    /\ cursor = 0
    /\ items = <<>>
    /\ result = "idle"
    /\ input \in UNION {SlicesOver(n, Utf8Bytes) : n \in 0..MaxBuffer}
    /\ max_size \in 0..MaxBuffer
    /\ size = 0
    /\ string = None
    /\ unread = input

\* limited_string(max_size, u): arbitrary_len returns a size that the bytes
\* left can fill; peek_bytes(size).unwrap() panics on a longer one
StrCall ==
    /\ pc = "string"
    /\ string = None
    /\ failure = "none"
    /\ \E drawn \in 0..Len(input) :
         /\ size' = drawn
         /\ IF Min(drawn, max_size) > Len(input)
            THEN /\ failure' = "Panic"
                 /\ UNCHANGED <<string, unread>>
            ELSE LET o == LimitedStringOn(max_size, drawn, input) IN
                 /\ string' = Some(o.s)
                 /\ unread' = o.unread
                 /\ UNCHANGED failure
    /\ UNCHANGED <<pc, config, allow_invalid, remaining, valtypes, types,
                   imports, funcs, tables, memories, globals, exports, start,
                   elems, code, data, export_names, drawn_name, list_vars,
                   input, max_size>>

StrNext == StrCall

StrSpec == StrInit /\ [][StrNext]_vars

-----------------------------------------------------------------------------
(* The properties of the generated module *)

FuncTotal == func_imports(imports) + Len(funcs)
TableTotal == table_imports(imports) + Len(tables)
GlobalTotal == global_imports(imports) + Len(globals)

\* C1: the number of memories, imported and local together, never exceeds 1,
\* whatever the configuration.
C1_SingleMemory == MemoryCount(imports, memories) <= 1

\* C2: the names of the exports are pairwise distinct.
C2_ExportNamesDistinct ==
    \A i, j \in DOMAIN exports : i # j => exports[i].name # exports[j].name

\* the third export's name collided twice: with "" first, with "2" next
C2_Witness ==
    /\ Len(exports) >= 3
    /\ exports[1].name = <<50>>
    /\ exports[2].name = <<>>
    /\ exports[3].name = <<50, 50>>

\* C3: every function index held by a Func export, the start function, an
\* element payload or a RefFunc initializer is below the number of functions,
\* imported and local together.
C3_FuncIndexBounds ==
    /\ \A i \in DOMAIN exports :
         exports[i].export.kind = "Func" => exports[i].export.idx < FuncTotal
    /\ start # None => start[1] < FuncTotal
    /\ \A i \in DOMAIN elems :
         LET it == elems[i].items IN
         IF it.form = "Functions"
         THEN \A k \in DOMAIN it.funcs : it.funcs[k] < FuncTotal
         ELSE \A k \in DOMAIN it.exprs :
                it.exprs[k] # None => it.exprs[k][1] < FuncTotal
    /\ \A i \in DOMAIN globals :
         globals[i].expr.op = "RefFunc" => globals[i].expr.func < FuncTotal

\* a finished module that exports its last function, starts at a function
\* and lists a function in an element segment
C3_Witness ==
    /\ pc = "done"
    /\ \E i \in DOMAIN exports :
         /\ exports[i].export.kind = "Func"
         /\ exports[i].export.idx = FuncTotal - 1
    /\ start # None
    /\ \E i \in DOMAIN elems :
         /\ elems[i].items.form = "Functions"
         /\ elems[i].items.funcs # <<>>

\* C4: every type index is below the number of types; every table, memory
\* and global index of an export, every explicit table index of an Active
\* element segment and every memory index of an Active data segment is below
\* the total of its kind; a function, imported or local, exists only when at
\* least one type does.
C4_IndexBounds ==
    /\ \A i \in DOMAIN imports :
         IsFunc(imports[i]) => imports[i].imp.type_idx < Len(types)
    /\ \A i \in DOMAIN funcs : funcs[i] < Len(types)
    /\ \A i \in DOMAIN exports :
         LET e == exports[i].export IN
         /\ e.kind = "Table" => e.idx < TableTotal
         /\ e.kind = "Memory" => e.idx < MemoryCount(imports, memories)
         /\ e.kind = "Global" => e.idx < GlobalTotal
    /\ \A i \in DOMAIN elems :
         LET k == elems[i].kind IN
         (k.kind = "Active" /\ k.table # None) => k.table[1] < TableTotal
    /\ \A i \in DOMAIN data :
         LET k == data[i].kind IN
         k.kind = "Active" => k.memory_index < MemoryCount(imports, memories)
    /\ FuncTotal > 0 => Len(types) >= 1

\* a finished module with a memory export and an Active data segment that
\* both name the last memory
C4_Witness ==
    /\ pc = "done"
    /\ \E i \in DOMAIN exports :
         /\ exports[i].export.kind = "Memory"
         /\ exports[i].export.idx = MemoryCount(imports, memories) - 1
    /\ \E i \in DOMAIN data :
         /\ data[i].kind.kind = "Active"
         /\ data[i].kind.memory_index = MemoryCount(imports, memories) - 1

\* C5: types, imports, functions, globals, exports, element segments, the
\* items of each segment and data segments never outnumber the configured
\* maximum of their kind.
C5_BoundRespect ==
    /\ Len(types) <= config.max_types
    /\ Len(imports) <= config.max_imports
    /\ Len(funcs) <= config.max_funcs
    /\ Len(globals) <= config.max_globals
    /\ Len(exports) <= config.max_exports
    /\ Len(elems) <= config.max_element_segments
    /\ \A i \in DOMAIN elems :
         LET it == elems[i].items IN
         IF it.form = "Functions"
         THEN Len(it.funcs) <= config.max_elements
         ELSE Len(it.exprs) <= config.max_elements
    /\ Len(data) <= config.max_data_segments

\* a finished module whose types and exports both stand at their maximum
C5_Witness ==
    /\ pc = "done"
    /\ config.max_types >= 1
    /\ Len(types) = config.max_types
    /\ config.max_exports >= 2
    /\ Len(exports) = config.max_exports

\* C6: the pipeline never reaches a hard failure: no choice from an empty
\* list, no range with its lower bound above its upper bound, no unsigned
\* subtraction that underflows.
C6_Totality == failure = "none" /\ pc # "failed"

\* a finished module for which the early returns mattered: functions and
\* exports were asked for with no type and nothing to export
C6_Witness ==
    /\ pc = "done"
    /\ failure = "none"
    /\ config.max_funcs > 0
    /\ types = <<>>
    /\ config.max_exports > 0
    /\ ExportsSkipped(imports, funcs, tables, memories, globals)
    /\ config.max_data_segments > 0
    /\ DataSkipped(config, imports, memories)

EmptyModule ==
    /\ types = <<>> /\ imports = <<>> /\ funcs = <<>> /\ tables = <<>>
    /\ memories = <<>> /\ globals = <<>> /\ exports = <<>> /\ start = None
    /\ elems = <<>> /\ data = <<>> /\ code = <<>>

\* C8: with an empty byte buffer generation succeeds and the module stays
\* empty: no step taken with no byte left adds a type, import, function,
\* table, memory, global, export, start function, segment or body, or fails.
\* The module is empty when the build starts, so a build started on an empty
\* buffer ends with an empty module.
C8_EmptyInput ==
    [][(remaining = 0 /\ EmptyModule) =>
         (EmptyModule' /\ failure' = "none" /\ pc' # "failed")]_vars

\* a build of a configuration that allows one of everything, finished on an
\* empty buffer with an empty module
C8_Witness ==
    /\ pc = "done"
    /\ remaining = 0
    /\ EmptyModule
    /\ config.max_types > 0 /\ config.max_imports > 0 /\ config.max_funcs > 0
    /\ config.max_tables > 0 /\ config.max_memories > 0 /\ config.max_globals > 0
    /\ config.max_exports > 0 /\ config.max_element_segments > 0
    /\ config.max_data_segments > 0
    /\ config.bulk_memory_enabled /\ config.reference_types_enabled

\* C9: an Active data segment exists only when the module has a memory; with
\* no memory, imported or local, every data segment is Passive.
C9_ForcedPassive ==
    \A i \in DOMAIN data :
      data[i].kind.kind = "Active" => MemoryCount(imports, memories) >= 1

\* a Passive segment generated with no memory where memories were allowed
C9_Witness ==
    /\ MemoryCount(imports, memories) = 0
    /\ config.max_memories > 0
    /\ \E i \in DOMAIN data : data[i].kind.kind = "Passive"

\* C10: with reference types disabled every element segment is Active on the
\* implicit table 0, has the FuncRef element type and a Functions payload.
C10_MvpElems ==
    ~config.reference_types_enabled =>
      \A i \in DOMAIN elems :
        /\ elems[i].kind.kind = "Active"
        /\ elems[i].kind.table = None
        /\ elems[i].ty = "FuncRef"
        /\ elems[i].items.form = "Functions"

\* an element segment generated with reference types disabled and bulk
\* memory enabled
C10_Witness ==
    /\ ~config.reference_types_enabled
    /\ config.bulk_memory_enabled
    /\ elems # <<>>

RECURSIVE Suffixed(_, _, _)
\* the name d followed by m copies of the suffix
Suffixed(d, suffix, m) == IF m = 0 THEN d ELSE Suffixed(d, suffix, m - 1) \o suffix

\* C11: the name stored for a new export is the drawn name when that is not
\* yet in the export-name set; otherwise it is the drawn name followed by the
\* decimal size of the set, repeated just as often as it takes to leave the
\* set - every shorter candidate is in the set, the stored one is not.
C11_NameSuffixing ==
    [][Len(exports') = Len(exports) + 1 =>
         LET d == drawn_name'
             n == exports'[Len(exports')].name
             suffix == ToDecimal(Cardinality(export_names))
         IN /\ d \notin export_names => n = d
            /\ d \in export_names =>
                 \E m \in 1..(Cardinality(export_names) + 1) :
                   /\ n = Suffixed(d, suffix, m)
                   /\ n \notin export_names
                   /\ \A k \in 0..(m - 1) : Suffixed(d, suffix, k) \in export_names
      ]_vars

\* two exports that drew the same name "2": the first stored unchanged, the
\* second as "21"
C11_Witness ==
    /\ Len(exports) = 2
    /\ exports[1].name = <<50>>
    /\ drawn_name = <<50>>
    /\ exports[2].name = <<50, 49>>

\* the type of the function with index f of the flat function index space
FuncTypeOf(f) == types[FuncTypeIdxs(imports, funcs)[f + 1] + 1]

\* C12: the start function, when present, is the index of a function,
\* imported or local, whose type has no parameters and no results; so there
\* is no start function when no such function exists, and with the single
\* type () -> (), one local function and no function import it is index 0.
C12_StartFunction ==
    start # None =>
      /\ start[1] < FuncTotal
      /\ FuncTypeOf(start[1]).params = <<>>
      /\ FuncTypeOf(start[1]).results = <<>>

\* one type () -> (), one local function of it, no function import, and
\* the start function is index 0
C12_Witness ==
    /\ pc = "done"
    /\ types = <<[params |-> <<>>, results |-> <<>>]>>
    /\ funcs = <<0>>
    /\ func_imports(imports) = 0
    /\ start = Some(0)


\* C13: a function body is an arbitrary byte blob only when allow_invalid is
\* set and the coin came out true, which an exhausted buffer never gives;
\* with allow_invalid false every body is a Generated instruction sequence.
C13_InvalidOptIn ==
    [][Len(code') = Len(code) + 1 =>
         (code'[Len(code')].instructions = "Arbitrary"
          => allow_invalid /\ remaining > 0)]_vars

\* a finished module built with allow_invalid false and bytes to spare for
\* the coin, whose body is Generated
C13_Witness ==
    /\ pc = "done"
    /\ ~allow_invalid
    /\ remaining > 0
    /\ code # <<>>
    /\ \A i \in DOMAIN code : code[i].instructions = "Generated"

\* the elements of a sequence
Elems(seq) == {seq[i] : i \in DOMAIN seq}

\* C14: with reference types disabled ExternRef appears nowhere: not among
\* the parameter, result, local or global value types, not as the element
\* type of a table, imported or local, and not as an element segment type.
C14_ExternRefGated ==
    ~config.reference_types_enabled =>
      /\ \A i \in DOMAIN types :
           "ExternRef" \notin Elems(types[i].params) \cup Elems(types[i].results)
      /\ \A i \in DOMAIN code : "ExternRef" \notin Elems(code[i].locals)
      /\ \A i \in DOMAIN globals : globals[i].ty.val_type # "ExternRef"
      /\ \A i \in DOMAIN imports :
           /\ IsGlobal(imports[i]) => imports[i].imp.global.val_type # "ExternRef"
           /\ IsTable(imports[i]) => imports[i].imp.table.elem_ty = "FuncRef"
      /\ \A i \in DOMAIN tables : tables[i].elem_ty = "FuncRef"
      /\ \A i \in DOMAIN elems : elems[i].ty # "ExternRef"

\* C15: with bulk memory disabled every data segment is Active, and none
\* is generated when the module has no memory; a Passive data segment
\* appears only with bulk memory enabled.
C15_PassiveNeedsBulk ==
    ~config.bulk_memory_enabled =>
      /\ \A i \in DOMAIN data : data[i].kind.kind = "Active"
      /\ MemoryCount(imports, memories) = 0 => data = <<>>

\* bulk memory disabled, a memory, bytes left for a coin, and an Active
\* data segment
C15_Witness ==
    /\ ~config.bulk_memory_enabled
    /\ MemoryCount(imports, memories) >= 1
    /\ data # <<>>
    /\ data[1].kind.kind = "Active"
    /\ remaining > 0

\* limits whose minimum, and whose maximum when present, are at most cap,
\* the maximum being at least the minimum
WellFormed(limits, cap) ==
    /\ 0 <= limits.min /\ limits.min <= cap
    /\ limits.max # None => (limits.min <= limits.max[1] /\ limits.max[1] <= cap)

\* C16: every memory type, imported or local, has min <= 65536 and, when a
\* maximum is present, min <= max <= 65536; every table type, imported or
\* local, has the same with 1000000.
C16_LimitsWellFormed ==
    /\ \A i \in DOMAIN memories : WellFormed(memories[i].limits, MemoryCap)
    /\ \A i \in DOMAIN tables : WellFormed(tables[i].limits, TableCap)
    /\ \A i \in DOMAIN imports :
         /\ IsMemory(imports[i]) => WellFormed(imports[i].imp.memory.limits, MemoryCap)
         /\ IsTable(imports[i]) => WellFormed(imports[i].imp.table.limits, TableCap)

\* a memory whose minimum is the cap and whose maximum is present
C16_Witness ==
    \E i \in DOMAIN memories :
      /\ memories[i].limits.min = MemoryCap
      /\ memories[i].limits.max = Some(MemoryCap)

\* the type of the imported global with global index g
ImportedGlobal(g) == SelectSeq(imports, IsGlobal)[g + 1].imp.global

\* C17: the initializer of every local global is the constant literal of the
\* global's numeric type, or RefNull of its reference type, or RefFunc (only
\* for a FuncRef global, only when a function exists), or GlobalGet of an
\* imported global that is immutable and of the global's value type.
C17_GlobalInitializers ==
    \A i \in DOMAIN globals :
      LET vt == globals[i].ty.val_type
          e == globals[i].expr
      IN \/ vt = "I32" /\ e.op = "I32Const"
         \/ vt = "I64" /\ e.op = "I64Const"
         \/ vt = "F32" /\ e.op = "F32Const"
         \/ vt = "F64" /\ e.op = "F64Const"
         \/ vt \in {"ExternRef", "FuncRef"} /\ e.op = "RefNull" /\ e.ty = vt
         \/ vt = "FuncRef" /\ e.op = "RefFunc" /\ FuncTotal >= 1
         \/ /\ e.op = "GlobalGet"
            /\ e.global < global_imports(imports)
            /\ ~ImportedGlobal(e.global).mutable
            /\ ImportedGlobal(e.global).val_type = vt

\* a local global initialized by reading an imported global, next to an
\* imported global
C17_Witness ==
    /\ global_imports(imports) >= 1
    /\ \E i \in DOMAIN globals : globals[i].expr.op = "GlobalGet"

\* the kinds arbitrary_exports offers for the module as it stands
Candidates == Elems(ExportChoices(imports, funcs, tables, memories, globals))

\* C18: at the export phase a kind is a candidate for export exactly when an
\* instance of the kind exists, imported or locally defined.
C18_ExportCandidates ==
    pc = "exports" =>
      \A kind \in {"Func", "Table", "Memory", "Global"} :
        kind \in Candidates <=>
          ExportTotal(kind, imports, funcs, tables, memories, globals) > 0

\* the value types a validator accepts under the configured flags
ValtypeAccepted(vt) ==
    vt \in {"ExternRef", "FuncRef"} => config.reference_types_enabled

\* the structural rules a validator run with the configured flags applies to
\* the sections built here: value and element types allowed by the flags,
\* limits in order, indices in range, export names distinct, a start function
\* of type () -> (), passive data segments only with bulk memory
Validates ==
    /\ \A i \in DOMAIN types :
         \A vt \in Elems(types[i].params) \cup Elems(types[i].results) :
           ValtypeAccepted(vt)
    /\ \A i \in DOMAIN code : \A vt \in Elems(code[i].locals) : ValtypeAccepted(vt)
    /\ \A i \in DOMAIN globals : ValtypeAccepted(globals[i].ty.val_type)
    /\ \A i \in DOMAIN imports :
         /\ IsFunc(imports[i]) => imports[i].imp.type_idx < Len(types)
         /\ IsGlobal(imports[i]) => ValtypeAccepted(imports[i].imp.global.val_type)
         /\ IsTable(imports[i]) =>
              (imports[i].imp.table.elem_ty = "ExternRef"
                 => config.reference_types_enabled)
    /\ \A i \in DOMAIN tables :
         /\ tables[i].elem_ty = "ExternRef" => config.reference_types_enabled
         /\ WellFormed(tables[i].limits, U32Max)
    /\ \A i \in DOMAIN memories : WellFormed(memories[i].limits, MemoryCap)
    /\ \A i \in DOMAIN funcs : funcs[i] < Len(types)
    /\ \A i, j \in DOMAIN exports :
         exports[i].name = exports[j].name => i = j
    /\ start # None =>
         /\ start[1] < FuncTotal
         /\ FuncTypeOf(start[1]) = [params |-> <<>>, results |-> <<>>]
    /\ \A i \in DOMAIN data :
         data[i].kind.kind = "Passive" => config.bulk_memory_enabled

\* C19: a module generated in the validity-preserving mode satisfies the
\* structural rules of the format under the configured feature flags.
C19_ValidityRoundTrip ==
    (pc = "done" /\ ~allow_invalid) => Validates

\* C20: the pipeline terminates: every run of build reaches its end, with a
\* module or with a failure.
C20_Termination == <>(pc \in {"done", "failed"})

\* a finished run whose export loop ran to its maximum of two iterations and
\* whose deduplication loop lengthened the second name
C20_Witness ==
    /\ pc = "done"
    /\ config.max_exports = 2
    /\ Len(exports) = 2
    /\ exports[2].name # drawn_name

\* the sections the growth loops fill
GrownSections ==
    <<types, imports, funcs, tables, memories, globals, exports, elems, data>>

\* the sizes of the sections the growth loops fill
GrownSizes ==
    <<Len(types), Len(imports), Len(funcs), Len(tables), Len(memories),
      Len(globals), Len(exports), Len(elems), Len(data)>>

\* C21 as stated: once the byte buffer is exhausted no phase appends an item
\* to any section, the code section included, and no start function is chosen.
C21_NothingAppended ==
    [][remaining = 0 =>
         /\ GrownSections' = GrownSections
         /\ code' = code
         /\ start' = start]_vars

\* C21: a growth loop appends one item per step; a loop that has made its
\* maximum of iterations is left without consuming a draw; once the byte
\* buffer is exhausted no growth loop appends an item to its section and no
\* start function is chosen.  The code phase is not a growth loop: it still
\* appends one body per local function.
C21_ExhaustionStopsGrowth ==
    [][/\ \A k \in DOMAIN GrownSizes : GrownSizes'[k] <= GrownSizes[k] + 1
       /\ (pc = "types" /\ Len(types) >= config.max_types /\ pc' # pc)
            => remaining' = remaining
       /\ (pc = "imports" /\ Len(imports) >= config.max_imports /\ pc' # pc)
            => remaining' = remaining
       /\ (pc = "globals" /\ Len(globals) >= config.max_globals /\ pc' # pc)
            => remaining' = remaining
       /\ remaining = 0 =>
            /\ GrownSections' = GrownSections
            /\ start' = start
            /\ (code' # code => pc = "code" /\ Len(code') = Len(code) + 1
                                /\ Len(code') <= Len(funcs))
      ]_vars

\* a finished module built from a buffer that ran out before the code phase:
\* the function has its body, and a function of type () -> () was not made
\* the start function
C21_Witness ==
    /\ pc = "done"
    /\ remaining = 0
    /\ funcs # <<>>
    /\ Len(code) = Len(funcs)
    /\ code[1].locals = <<>>
    /\ code[1].instructions = "Generated"
    /\ StartChoices(types, imports, funcs) # <<>>
    /\ start = None

\* C22: the imported tables (memories) never outnumber max_tables
\* (max_memories), so `max - imported` does not underflow in the tables and
\* memories phases, and imported and local tables (memories) together never
\* outnumber the maximum.
C22_CombinedCaps ==
    /\ table_imports(imports) <= config.max_tables
    /\ memory_imports(imports) <= config.max_memories
    /\ ~Underflows(config.max_tables, table_imports(imports))
    /\ ~Underflows(config.max_memories, memory_imports(imports))
    /\ failure # "Underflow"
    /\ TableTotal <= config.max_tables
    /\ MemoryCount(imports, memories) <= config.max_memories

\* past the memories phase, with an imported memory and a local one that
\* together fill max_memories: `max - imported` left room for one
C22_Witness ==
    /\ pc \notin {"valtypes", "types", "imports", "funcs", "tables", "memories"}
    /\ memory_imports(imports) >= 1
    /\ memories # <<>>
    /\ MemoryCount(imports, memories) = config.max_memories

\* C23: an ExternRef element segment has the Expressions payload with every
\* entry null; a Functions payload and a non-null entry occur only in FuncRef
\* segments; in a module without functions a Functions payload is empty and
\* every Expressions entry is null.
C23_ElemPayloadForm ==
    \A i \in DOMAIN elems :
      LET seg == elems[i]
          expressions == seg.items.form = "Expressions"
      IN /\ seg.ty = "ExternRef" =>
              /\ expressions
              /\ \A j \in DOMAIN seg.items.exprs : seg.items.exprs[j] = None
         /\ ~expressions => seg.items.form = "Functions" /\ seg.ty = "FuncRef"
         /\ expressions =>
              \A j \in DOMAIN seg.items.exprs :
                seg.items.exprs[j] # None => seg.ty = "FuncRef" /\ FuncTotal > 0
         /\ (~expressions /\ FuncTotal = 0) => seg.items.funcs = <<>>

\* an ExternRef segment with a null entry
C23_Witness ==
    \E i \in DOMAIN elems :
      /\ elems[i].ty = "ExternRef"
      /\ elems[i].items.form = "Expressions"
      /\ elems[i].items.exprs # <<>>
      /\ elems[i].items.exprs[1] = None

\* an i32 constant expression: I32Const, or GlobalGet of an imported global
\* that is immutable and of type I32
I32ConstExpr(e) ==
    \/ e.op = "I32Const"
    \/ /\ e.op = "GlobalGet"
       /\ e.global < global_imports(imports)
       /\ ~ImportedGlobal(e.global).mutable
       /\ ImportedGlobal(e.global).val_type = "I32"

PhaseOrder ==
    <<"valtypes", "types", "imports", "funcs", "tables", "memories", "globals",
      "exports", "start", "elems", "data", "code", "done">>

\* the position of a phase in the order
Rank(p) == CHOOSE k \in DOMAIN PhaseOrder : PhaseOrder[k] = p

\* b is a with zero or more entries appended
Extends(b, a) == Len(a) <= Len(b) /\ SubSeq(b, 1, Len(a)) = a

\* C25: the phases run in the fixed order; a section changes only in its own
\* phase and only by appending; a start function once chosen stays.
C25_OrderedAppendOnly ==
    [][/\ pc' # pc => (pc' = "failed" \/ Rank(pc') = Rank(pc) + 1)
       /\ Extends(valtypes', valtypes) /\ (valtypes' # valtypes => pc = "valtypes")
       /\ Extends(types', types) /\ (types' # types => pc = "types")
       /\ Extends(imports', imports) /\ (imports' # imports => pc = "imports")
       /\ Extends(funcs', funcs) /\ (funcs' # funcs => pc = "funcs")
       /\ Extends(tables', tables) /\ (tables' # tables => pc = "tables")
       /\ Extends(memories', memories) /\ (memories' # memories => pc = "memories")
       /\ Extends(globals', globals) /\ (globals' # globals => pc = "globals")
       /\ Extends(exports', exports) /\ (exports' # exports => pc = "exports")
       /\ Extends(elems', elems) /\ (elems' # elems => pc = "elems")
       /\ Extends(data', data) /\ (data' # data => pc = "data")
       /\ Extends(code', code) /\ (code' # code => pc = "code")
       /\ start' # start => (pc = "start" /\ start = None)
      ]_vars

\* a finished module in which the types, functions, exports and code phases
\* each appended and the start phase chose a function
C25_Witness ==
    /\ pc = "done"
    /\ types # <<>>
    /\ funcs # <<>>
    /\ exports # <<>>
    /\ code # <<>>
    /\ start # None

\* C26: when build succeeds the code list has one body per local function,
\* the i-th body built for the type of the i-th local function; imported
\* functions get none.
C26_OneBodyPerFunc ==
    pc = "done" =>
      /\ Len(code) = Len(funcs)
      /\ Len(code) = FuncTotal - func_imports(imports)
      /\ \A i \in DOMAIN code : code[i].ty = funcs[i]

\* a finished module with two local functions of different types and their
\* two bodies
C26_Witness ==
    /\ pc = "done"
    /\ Len(funcs) = 2
    /\ funcs[1] # funcs[2]
    /\ Len(code) = 2

\* C27: whatever the configuration, a function type has at most 20
\* parameters and at most 20 results, a body at most 100 locals, an import's
\* module and field names at most 1000 bytes each, and every value type of a
\* parameter, result, local or global is in the module's value-type universe.
C27_HardCaps ==
    /\ \A i \in DOMAIN types :
         /\ Len(types[i].params) <= ParamCap
         /\ Len(types[i].results) <= ParamCap
         /\ Elems(types[i].params) \cup Elems(types[i].results) \subseteq Elems(valtypes)
    /\ \A i \in DOMAIN code :
         /\ Len(code[i].locals) <= LocalCap
         /\ Elems(code[i].locals) \subseteq Elems(valtypes)
    /\ \A i \in DOMAIN imports :
         /\ Len(imports[i].module) <= NameCap
         /\ Len(imports[i].name) <= NameCap
         /\ IsGlobal(imports[i]) => imports[i].imp.global.val_type \in Elems(valtypes)
    /\ \A i \in DOMAIN globals : globals[i].ty.val_type \in Elems(valtypes)

\* a type with a full list of parameters and a full list of results
C27_Witness ==
    /\ pc = "capped"
    /\ types # <<>>
    /\ Len(types[1].params) = ParamCap
    /\ Len(types[1].results) = ParamCap

Alternates(p) ==
    \A j \in DOMAIN p : p[j] = (IF j % 2 = 1 THEN "Item" ELSE "Comma")

\* the stream starts with a list and its end token
Accepted(toks) ==
    \E e \in DOMAIN toks :
      toks[e] = "End" /\ Alternates(SubSeq(toks, 1, e - 1))

\* what parse_list_trailer has returned is right: Ok exactly for a list
\* followed by the end token, with the items in source order and the
\* tokenizer just past the end token
ListCorrect ==
    /\ result = "Ok" =>
         /\ cursor >= 1
         /\ tokens[cursor] = "End"
         /\ Alternates(SubSeq(tokens, 1, cursor - 1))
         /\ items = SelectSeq([j \in 1..(cursor - 1) |-> j],
                              LAMBDA j : tokens[j] = "Item")
    /\ result = "Err" => ~Accepted(tokens)
    /\ cursor <= Len(tokens)

\* C29: parse_list_trailer accepts exactly a possibly empty sequence of items
\* separated by single commas, with an optional trailing comma, followed by
\* the end token; it returns the items in source order with the tokenizer
\* just past the end token, fails otherwise, and always returns.
C29_ListTrailer == [](ListCorrect) /\ <>(result \in {"Ok", "Err"})

\* two items and a trailing comma, accepted
C29_Witness ==
    /\ tokens = <<"Item", "Comma", "Item", "Comma", "End">>
    /\ result = "Ok"
    /\ items = <<1, 3>>
    /\ cursor = 5

\* one well-formed UTF-8 byte sequence, by the table of the Unicode standard
Utf8Scalar(c) ==
    LET cont(k) == c[k] \in 128..191 IN
    CASE Len(c) = 1 -> c[1] <= 127
      [] Len(c) = 2 -> c[1] \in 194..223 /\ cont(2)
      [] Len(c) = 3 ->
           /\ \/ c[1] = 224 /\ c[2] \in 160..191
              \/ c[1] \in (225..236) \cup (238..239) /\ cont(2)
              \/ c[1] = 237 /\ c[2] \in 128..159
           /\ cont(3)
      [] Len(c) = 4 ->
           /\ \/ c[1] = 240 /\ c[2] \in 144..191
              \/ c[1] \in 241..243 /\ cont(2)
              \/ c[1] = 244 /\ c[2] \in 128..143
           /\ cont(3)
           /\ cont(4)
      [] OTHER -> FALSE

RECURSIVE IsUtf8(_)
\* s is valid UTF-8: a concatenation of well-formed byte sequences
IsUtf8(s) ==
    \/ s = <<>>
    \/ \E n \in 1..Min(4, Len(s)) :
         Utf8Scalar(SubSeq(s, 1, n)) /\ IsUtf8(SubSeq(s, n + 1, Len(s)))

\* C30: limited_string never fails; the string it returns is valid UTF-8 of
\* at most max_size bytes, the longest valid prefix of the drawn slice (the
\* whole slice when that is valid), and exactly its bytes are consumed.
C30_StringTruncation ==
    /\ failure = "none"
    /\ string # None =>
         LET s == string[1]
             slice == SubSeq(input, 1, Min(size, max_size))
         IN /\ Len(s) <= max_size
            /\ IsUtf8(s)
            /\ s = SubSeq(slice, 1, Len(s))
            /\ \A n \in (Len(s) + 1)..Len(slice) : ~IsUtf8(SubSeq(slice, 1, n))
            /\ IsUtf8(slice) => s = slice
            /\ input = s \o unread

\* a slice cut by max_size whose last lead byte opens a sequence it does not
\* complete: the string stops before it and the lead byte stays unread
C30_Witness ==
    /\ input = <<50, 194, 169, 224>>
    /\ max_size = 4
    /\ size = 4
    /\ string = Some(<<50, 194, 169>>)
    /\ unread = <<224>>

====
